---- MODULE Spec2Model ----
(***************************************************************************)
(* Model of the conference-room booking API: the BookingService admission  *)
(* engine (createBooking, cancelBooking), the bookings table behind        *)
(* PostgresBookingRepository, the Redis cache and the event bus.           *)
(*                                                                         *)
(* Every `await` of the service is one atomic step of a call; the calls    *)
(* of different requests interleave between their awaits, as they do on    *)
(* the Node.js event loop with a shared PostgreSQL pool.                   *)
(***************************************************************************)
EXTENDS Integers, Sequences, FiniteSets, TLC

VARIABLES
    bookings,   \* the bookings table: row i has id i (ids are fresh, never reused)
    rooms,      \* ids of the rows of the rooms table
    cache,      \* the Redis keyspace: key -> [value, ttl]
    cacheUp,    \* TRUE while the Redis client is connected and answering
    now,        \* the wall clock, in milliseconds
    calls,      \* per request slot: the BookingService call in flight
    firstReturned,  \* history: per idempotency key, the id of the first booking
                    \* a createBooking call carrying that key returned
    bus,        \* the RabbitMQEventBus singleton and the broker's queues
    dispatch,   \* RabbitMQEventBus.handlers and the consumer callback's loop
    limiter,    \* the RateLimiter singleton
    memory      \* an InMemoryCache

vars == <<bookings, rooms, cache, cacheUp, now, calls, firstReturned, bus,
          dispatch, limiter, memory>>

----------------------------------------------------------------------------
(* Bounds of the model *)

MaxBookings == 2   \* rows the bookings table may hold

(* Program constants *)

MinDurationMs == 15 * 60 * 1000
MaxDurationMs == 8 * 60 * 60 * 1000
CacheTtl == 300
IdempotencyTtl == 86400

(* Values the requests are drawn from *)

Procs == {1, 2}
SeedRooms == {1, 2, 3}    \* the rooms the table starts with
MissingRoom == 4          \* a well-formed id of no room
NoKey == 0                \* no Idempotency-Key header (undefined or empty)
IdempotencyKeys == {1, 2}
Null == 0                 \* null / undefined id
NoTime == -1              \* cancelled_at IS NULL
NoReason == ""            \* cancelBooking called without a reason
Reasons == {NoReason, "meeting moved"}

\* instants around the two duration limits
TimePoints == {0, MinDurationMs - 1, MinDurationMs, MaxDurationMs, MaxDurationMs + 1}
\* instants that are all a valid duration apart
CoarseTimePoints == {0, MinDurationMs, MaxDurationMs}

HourMs == 60 * 60 * 1000
\* instants of the day that requests for getAvailability's day are drawn from:
\* 07:00, 10:00, 12:00, 14:00 and 19:00
DayTimePoints == {7 * HourMs, 10 * HourMs, 12 * HourMs, 14 * HourMs, 19 * HourMs}
\* instants before, inside and after the working window: 06:00, 07:00, 10:00,
\* 14:00, 19:00 and 20:00
WideDayTimePoints ==
    {6 * HourMs, 7 * HourMs, 10 * HourMs, 14 * HourMs, 19 * HourMs, 20 * HourMs}

\* titles that requests give their bookings
Titles == {"Standup"}
NoTitle == ""

\* CreateBookingDTO values of the users `userIds`
DataBy(userIds, roomIds, times, keys) ==
    [userId : userIds, roomId : roomIds, title : Titles,
     startTime : times, endTime : times, idempotencyKey : keys]

\* CreateBookingDTO values of one user
Data(roomIds, times, keys) == DataBy({1}, roomIds, times, keys)

NoData ==
    [userId |-> Null, roomId |-> Null, title |-> NoTitle,
     startTime |-> 0, endTime |-> 0, idempotencyKey |-> NoKey]

\* getAvailability returned null / has not returned
NoAvailability ==
    [roomId |-> Null, availableSlots |-> <<>>, bookedSlots |-> <<>>,
     dateFormat |-> "Date"]

\* dateFormat tells what the time fields of a Booking value are: Date objects,
\* as mapRowToBooking builds them, or the ISO strings JSON.parse leaves
NoBooking ==
    [id |-> Null, userId |-> Null, roomId |-> Null, title |-> NoTitle,
     startTime |-> 0, endTime |-> 0,
     status |-> "NONE", idempotencyKey |-> NoKey, cancelledAt |-> NoTime,
     dateFormat |-> "Date"]

BookingIds == 1..(MaxBookings + 1)

----------------------------------------------------------------------------
(* PostgresBookingRepository over the bookings table *)

\* the rows of the table, as Booking entities
Rows == {bookings[i] : i \in 1..Len(bookings)}

findById(id) ==
    IF id \in 1..Len(bookings) THEN bookings[id] ELSE NoBooking

findByIdempotencyKey(key) ==
    IF \E b \in Rows : b.idempotencyKey = key
    THEN CHOOSE b \in Rows : b.idempotencyKey = key
    ELSE NoBooking

\* mutant: only a requested start inside an existing booking counts as a conflict
findConflictingBookingsStartInside(roomId, startTime, endTime, excludeBookingId) ==
    {b \in Rows :
        /\ b.roomId = roomId
        /\ b.status # "CANCELLED"
        /\ b.startTime <= startTime /\ b.endTime > startTime
        /\ (excludeBookingId # Null => b.id # excludeBookingId)}

\* mutant: bookings that only touch the requested interval count as conflicts
findConflictingBookingsTouching(roomId, startTime, endTime, excludeBookingId) ==
    {b \in Rows :
        /\ b.roomId = roomId
        /\ b.status # "CANCELLED"
        /\ b.startTime <= endTime /\ b.endTime >= startTime
        /\ (excludeBookingId # Null => b.id # excludeBookingId)}

\* mutant: cancelled bookings count as conflicts
findConflictingBookingsAnyStatus(roomId, startTime, endTime, excludeBookingId) ==
    {b \in Rows :
        /\ b.roomId = roomId
        /\ b.startTime < endTime /\ b.endTime > startTime
        /\ (excludeBookingId # Null => b.id # excludeBookingId)}

findConflictingBookings(roomId, startTime, endTime, excludeBookingId) ==
    {b \in Rows :
        /\ b.roomId = roomId
        /\ b.status # "CANCELLED"
        /\ b.startTime < endTime /\ b.endTime > startTime
        /\ (excludeBookingId # Null => b.id # excludeBookingId)}

\* mutant: idempotency_key is not declared UNIQUE
InsertAllowedWithoutUnique(data) == data.roomId \in rooms

\* the constraints of the bookings table that an INSERT must satisfy
InsertAllowed(data) ==
    /\ data.roomId \in rooms
    /\ (data.idempotencyKey # NoKey =>
            \A b \in Rows : b.idempotencyKey # data.idempotencyKey)

\* mutant: the INSERT does not store the idempotency key
NewBookingWithoutKey(data) ==
    [id |-> Len(bookings) + 1, userId |-> data.userId, roomId |-> data.roomId,
     title |-> data.title, startTime |-> data.startTime, endTime |-> data.endTime,
     status |-> "CONFIRMED", idempotencyKey |-> NoKey, cancelledAt |-> NoTime,
     dateFormat |-> "Date"]

\* mutant: the INSERT leaves the booking PENDING
NewBookingPending(data) ==
    [id |-> Len(bookings) + 1, userId |-> data.userId, roomId |-> data.roomId,
     title |-> data.title, startTime |-> data.startTime, endTime |-> data.endTime,
     status |-> "PENDING", idempotencyKey |-> data.idempotencyKey,
     cancelledAt |-> NoTime, dateFormat |-> "Date"]

\* the row that create(data) inserts
NewBooking(data) ==
    [id |-> Len(bookings) + 1, userId |-> data.userId, roomId |-> data.roomId,
     title |-> data.title, startTime |-> data.startTime, endTime |-> data.endTime,
     status |-> "CONFIRMED", idempotencyKey |-> data.idempotencyKey,
     cancelledAt |-> NoTime, dateFormat |-> "Date"]

----------------------------------------------------------------------------
(* RedisCache *)

IdempotencyCacheKey(key) == <<"idempotency", key>>
BookingCacheKey(id) == <<"booking", id>>
\* toISOString().split('T')[0]: the UTC day of an instant, named here by the
\* first millisecond of that day
DateKey(time) == (time \div (24 * HourMs)) * (24 * HourMs)

\* `availability:${roomId}:${dateKey}`
AvailabilityCacheKey(roomId, date) == <<"availability", roomId, DateKey(date)>>

\* what JSON.parse gives back for what JSON.stringify(value) wrote under `key`:
\* an id string is itself, a Booking has its Date fields turned into ISO strings
JsonRoundTrip(key, value) ==
    IF key[1] \in {"booking", "availability"}
    THEN [value EXCEPT !.dateFormat = "string"]
    ELSE value

\* the null that a miss returns, as the caller's type has it
CacheMiss(key) ==
    IF key[1] = "booking" THEN NoBooking
    ELSE IF key[1] = "availability" THEN NoAvailability
    ELSE Null

\* mutant: an entry that differs from the stored booking is not served
CacheGetCoherent(key) ==
    IF cacheUp /\ key \in DOMAIN cache
          /\ (key[1] = "booking" =>
                 cache[key].value = JsonRoundTrip(key, findById(key[2])))
    THEN cache[key].value ELSE CacheMiss(key)

\* mutant: every read is a miss
CacheGetMiss(key) == CacheMiss(key)

\* mutant: the entry is served while Redis does not answer
CacheGetWhenDown(key) ==
    IF key \in DOMAIN cache THEN cache[key].value ELSE CacheMiss(key)

CacheGet(key) ==
    IF cacheUp /\ key \in DOMAIN cache THEN cache[key].value ELSE CacheMiss(key)

\* mutant: the entry is written without the TTL it was given
CacheSetWithoutTtl(key, value, ttl) ==
    IF cacheUp
    THEN [k \in DOMAIN cache \cup {key} |->
            IF k = key THEN [value |-> JsonRoundTrip(key, value), ttl |-> 0]
            ELSE cache[k]]
    ELSE cache

\* the entry holds the serialized value; CacheGet returns it parsed
CacheSet(key, value, ttl) ==
    IF cacheUp
    THEN [k \in DOMAIN cache \cup {key} |->
            IF k = key THEN [value |-> JsonRoundTrip(key, value), ttl |-> ttl]
            ELSE cache[k]]
    ELSE cache

\* mutant: the entry is overwritten with an empty value, not removed
CacheDeleteOverwriting(key) ==
    IF cacheUp
    THEN [k \in DOMAIN cache \cup {key} |->
            IF k = key THEN [value |-> CacheMiss(key), ttl |-> CacheTtl] ELSE cache[k]]
    ELSE cache

CacheDelete(key) ==
    IF cacheUp
    THEN [k \in DOMAIN cache \ {key} |-> cache[k]]
    ELSE cache

----------------------------------------------------------------------------
(* BookingService.validateBookingTimes: the error it throws, "" when none *)

\* mutant: a duration of exactly 8 hours is refused
validateBookingTimesInclusive(startTime, endTime) ==
    IF startTime < now THEN "Start time cannot be in the past"
    ELSE IF endTime <= startTime THEN "End time must be after start time"
    ELSE IF endTime - startTime >= MaxDurationMs
         THEN "Booking duration cannot exceed 8 hours"
    ELSE IF endTime - startTime < MinDurationMs
         THEN "Booking duration must be at least 15 minutes"
    ELSE ""

\* mutant: the minimum duration is checked before the order of start and end
validateBookingTimesReordered(startTime, endTime) ==
    IF startTime < now THEN "Start time cannot be in the past"
    ELSE IF endTime - startTime < MinDurationMs
         THEN "Booking duration must be at least 15 minutes"
    ELSE IF endTime <= startTime THEN "End time must be after start time"
    ELSE IF endTime - startTime > MaxDurationMs
         THEN "Booking duration cannot exceed 8 hours"
    ELSE ""

validateBookingTimes(startTime, endTime) ==
    IF startTime < now THEN "Start time cannot be in the past"
    ELSE IF endTime <= startTime THEN "End time must be after start time"
    ELSE IF endTime - startTime > MaxDurationMs
         THEN "Booking duration cannot exceed 8 hours"
    ELSE IF endTime - startTime < MinDurationMs
         THEN "Booking duration must be at least 15 minutes"
    ELSE ""

----------------------------------------------------------------------------
(* PostgresBookingRepository.findAll *)

\* a BookingFilter with no field supplied
NoFilter ==
    [roomId |-> Null, userId |-> Null, status |-> "",
     startTimeFrom |-> NoTime, startTimeTo |-> NoTime]

\* mutant: the user id of the filter is not made a condition
MatchesAnyUser(b, filter) ==
    /\ filter.roomId # Null => b.roomId = filter.roomId
    /\ filter.status # "" => b.status = filter.status
    /\ filter.startTimeFrom # NoTime => b.startTime >= filter.startTimeFrom
    /\ filter.startTimeTo # NoTime => b.startTime <= filter.startTimeTo

\* the WHERE clause findAll builds: one condition per field supplied
Matches(b, filter) ==
    /\ filter.roomId # Null => b.roomId = filter.roomId
    /\ filter.userId # Null => b.userId = filter.userId
    /\ filter.status # "" => b.status = filter.status
    /\ filter.startTimeFrom # NoTime => b.startTime >= filter.startTimeFrom
    /\ filter.startTimeTo # NoTime => b.startTime <= filter.startTimeTo

\* the results the query may return: the matching rows, ORDER BY start_time
\* ASC, rows of equal start time in any order
findAll(filter) ==
    LET rows == {b \in Rows : Matches(b, filter)}
        n == Cardinality(rows)
    IN  {list \in [1..n -> rows] :
            /\ \A i, j \in 1..n : i # j => list[i] # list[j]
            /\ \A i, j \in 1..n : i < j => list[i].startTime <= list[j].startTime}

----------------------------------------------------------------------------
(* Calls *)

IdleCall ==
    [pc |-> "idle", op |-> "none", data |-> NoData, id |-> Null, reason |-> NoReason,
     cachedBookingId |-> Null, booking |-> NoBooking,
     result |-> NoBooking, availability |-> NoAvailability,
     filter |-> NoFilter, list |-> <<>>,
     error |-> "", message |-> "", emitted |-> <<>>, published |-> <<>>]

Running(p) == calls[p].pc \notin {"idle", "done"}

\* the call of p returns `booking`
Return(p, booking) ==
    [calls[p] EXCEPT !.pc = "done", !.result = booking]

\* the call of p throws `error`
Throw(p, error, message) ==
    [calls[p] EXCEPT !.pc = "done", !.error = error, !.message = message]

\* eventBus.emit, as seen by the call that publishes: the event it passed and
\* the boolean emit returned
Emit(c, event, returned) ==
    [c EXCEPT !.emitted = Append(@, event), !.published = Append(@, returned)]

\* mutant: the event does not name the conflicting booking
RoomUnavailableEventRequestOnly(data, conflictingBookingId) ==
    [type |-> "room.unavailable", roomId |-> data.roomId,
     startTime |-> data.startTime, endTime |-> data.endTime,
     conflictingBookingId |-> Null]

RoomUnavailableEvent(data, conflictingBookingId) ==
    [type |-> "room.unavailable", roomId |-> data.roomId,
     startTime |-> data.startTime, endTime |-> data.endTime,
     conflictingBookingId |-> conflictingBookingId]

BookingCreatedEvent(booking) ==
    [type |-> "booking.created", booking |-> booking, reason |-> NoReason]

BookingCancelledEvent(booking, reason) ==
    [type |-> "booking.cancelled", booking |-> booking, reason |-> reason]

----------------------------------------------------------------------------
(* RabbitMQEventBus and the broker behind it *)

\* the events registerEventHandlers subscribes a handler to
EventTypes == {"booking.created", "booking.cancelled"}

\* the bus after construction: not connected, no handler, and a broker with no
\* queue bound to the exchange
NewEventBus ==
    [isConnected |-> FALSE,
     handlers |-> {},                            \* event types with a handler
     bound |-> {},                               \* event types whose queue is bound
     queue |-> [e \in EventTypes |-> <<>>],      \* messages ready, per queue
     inflight |-> <<>>]                          \* consumer callbacks running

\* the message the broker holds for a published event: its content is
\* JSON.stringify(payload), which the consumer reads back with JSON.parse, and
\* the broker flags it once it has been requeued
Message(event) ==
    [content |-> [event EXCEPT !.booking.dateFormat = "string"],
     redelivered |-> FALSE]

\* what emit may meet: no connection, a publish that throws, a publish that
\* is accepted
PublishOutcomes ==
    IF bus.isConnected THEN {"published", "raised"} ELSE {"notConnected"}

\* mutant: a publish that throws is reported as a success
emitReturnsAlwaysTrue(outcome) == TRUE

\* the boolean emit returns
emitReturns(outcome) == outcome = "published"

\* the bus after emit(event): the exchange routes an accepted message to the
\* queue bound with the event's routing key, and drops it when there is none
emit(event, outcome) ==
    IF outcome = "published" /\ event.type \in bus.bound
    THEN [bus EXCEPT !.queue[event.type] = Append(@, Message(event))]
    ELSE bus

\* the history variable after a step of p: it records the booking returned by
\* a createBooking call that carries a key, when the step ends the call
History(p) ==
    LET c == calls'[p]
        key == c.data.idempotencyKey
        ended == calls[p].pc # "done" /\ c.pc = "done" /\ c.op = "create" /\ key # NoKey
    IN  firstReturned' =
            IF ended /\ c.error = "" /\ firstReturned[key] = Null
            THEN [firstReturned EXCEPT ![key] = c.result.id]
            ELSE firstReturned

\* no consumer callback is running / no message has been settled
NoCallback == [state |-> "none"]

\* RabbitMQEventBus as constructed, seen from its consumers: handlers is the
\* Map of handler arrays, queue the messages the broker holds for the
\* consumers, callback the consumer callback in progress, last the settlement
\* of the message handled last
NewDispatch ==
    [handlers |-> [e \in EventTypes |-> <<>>],
     queue |-> <<>>,
     published |-> 0,
     callback |-> NoCallback,
     last |-> NoCallback]

\* no call of the rate limiter or of the in-memory cache has returned
NoReturn == [op |-> "none"]

\* client keys (req.ip) of the rate limiter
ClientKeys == {"10.0.0.1", "10.0.0.2"}

\* new RateLimiter(windowMs, maxRequests): windows is the Map of entry arrays;
\* allowed is the history of the instants at which check allowed a request
NewRateLimiter ==
    [windows |-> [k \in {} |-> <<>>],
     allowed |-> [k \in ClientKeys |-> <<>>],
     denied |-> [k \in ClientKeys |-> FALSE],
     last |-> NoReturn]

\* new InMemoryCache(): cache is the Map of entries; written is the history of
\* the last set of each key that no delete, deletePattern or clear followed
NewInMemoryCache ==
    [cache |-> [k \in {} |-> Null],
     written |-> [k \in {} |-> Null],
     last |-> NoReturn]

Init ==
    /\ bookings = <<>>
    /\ rooms = SeedRooms
    /\ cache = [k \in {} |-> Null]
    /\ cacheUp = TRUE
    /\ now = 0
    /\ calls = [p \in Procs |-> IdleCall]
    /\ firstReturned = [k \in IdempotencyKeys |-> Null]
    /\ bus = NewEventBus
    /\ dispatch = NewDispatch
    /\ limiter = NewRateLimiter
    /\ memory = NewInMemoryCache

----------------------------------------------------------------------------
(* BookingService.createBooking *)

InFlightCreates == Cardinality({q \in Procs : calls[q].op = "create" /\ Running(q)})

\* a request enters createBooking(data)
createBooking(p, data) ==
    /\ calls[p].pc = "idle"
    /\ Len(bookings) + InFlightCreates < MaxBookings
    /\ calls' = [calls EXCEPT ![p] =
            [IdleCall EXCEPT !.op = "create", !.data = data,
                !.pc = IF data.idempotencyKey # NoKey THEN "checkIdempotency"
                       ELSE "findRoom"]]
    /\ UNCHANGED <<bookings, rooms, cache, cacheUp, now, firstReturned, bus,
                   dispatch, limiter, memory>>

\* a request enters createBooking(data) while the table holds MaxBookings rows:
\* the requests followed are those the conflict check refuses, which add no row
createBookingOnFullTable(p, data) ==
    /\ calls[p].pc = "idle"
    /\ Len(bookings) >= MaxBookings
    /\ \A q \in Procs : ~Running(q)
    /\ findConflictingBookings(data.roomId, data.startTime, data.endTime, Null) # {}
    /\ calls' = [calls EXCEPT ![p] =
            [IdleCall EXCEPT !.op = "create", !.data = data,
                !.pc = IF data.idempotencyKey # NoKey THEN "checkIdempotency"
                       ELSE "findRoom"]]
    /\ UNCHANGED <<bookings, rooms, cache, cacheUp, now, firstReturned, bus,
                   dispatch, limiter, memory>>

\* checkIdempotency: cache.get(`idempotency:${key}`)
checkIdempotency(p) ==
    /\ calls[p].pc = "checkIdempotency"
    /\ calls' = [calls EXCEPT ![p] =
            [@ EXCEPT !.pc = "resolveIdempotency",
                !.cachedBookingId =
                    CacheGet(IdempotencyCacheKey(calls[p].data.idempotencyKey))]]
    /\ UNCHANGED <<bookings, rooms, cache, cacheUp, now, firstReturned, bus,
                   dispatch, limiter, memory>>

\* mutant: checkIdempotency trusts the cache alone
existingBookingCacheOnly(cachedBookingId, key) ==
    IF cachedBookingId # Null THEN findById(cachedBookingId) ELSE NoBooking

\* mutant: checkIdempotency passes over a cancelled booking
existingBookingLiveOnly(cachedBookingId, key) ==
    LET found == IF cachedBookingId # Null
                 THEN findById(cachedBookingId)
                 ELSE findByIdempotencyKey(key)
    IN  IF found.status = "CANCELLED" THEN NoBooking ELSE found

\* what checkIdempotency resolves the key to, given the id read from the cache
existingBooking(cachedBookingId, key) ==
    IF cachedBookingId # Null
    THEN findById(cachedBookingId)
    ELSE findByIdempotencyKey(key)

\* mutant: a replay publishes booking.created again
ReplayEmitting(p, existing) ==
    Emit(Return(p, existing), BookingCreatedEvent(existing), FALSE)

\* createBooking on a key that resolved: log and return the existing booking
Replay(p, existing) == Return(p, existing)

\* checkIdempotency: findById(cachedBookingId) or findByIdempotencyKey(key);
\* createBooking returns the booking found, if any
resolveIdempotency(p) ==
    /\ calls[p].pc = "resolveIdempotency"
    /\ LET existing ==
              existingBooking(calls[p].cachedBookingId, calls[p].data.idempotencyKey)
       IN  calls' = [calls EXCEPT ![p] =
                IF existing # NoBooking
                THEN Replay(p, existing)
                ELSE [@ EXCEPT !.pc = "findRoom"]]
    /\ History(p)
    /\ UNCHANGED <<bookings, rooms, cache, cacheUp, now, bus,
                   dispatch, limiter, memory>>

\* roomRepository.findById(data.roomId), then validateBookingTimes
findRoom(p) ==
    /\ calls[p].pc = "findRoom"
    /\ LET data == calls[p].data
           invalid == validateBookingTimes(data.startTime, data.endTime)
       IN  calls' = [calls EXCEPT ![p] =
                IF data.roomId \notin rooms
                THEN Throw(p, "RoomNotFoundError", "Room not found")
                ELSE IF invalid # ""
                THEN Throw(p, "InvalidBookingTimeError", invalid)
                ELSE [@ EXCEPT !.pc = "findConflicts"]]
    /\ History(p)
    /\ UNCHANGED <<bookings, rooms, cache, cacheUp, now, bus,
                   dispatch, limiter, memory>>

\* bookingRepository.findConflictingBookings; on a conflict emit room.unavailable
\* for the first row the store returned (the query has no ORDER BY) and throw
findConflicts(p) ==
    /\ calls[p].pc = "findConflicts"
    /\ LET data == calls[p].data
           conflicts ==
              findConflictingBookings(data.roomId, data.startTime, data.endTime, Null)
       IN  IF conflicts # {}
           THEN \E first \in conflicts, outcome \in PublishOutcomes :
                   /\ bus' = emit(RoomUnavailableEvent(data, first.id), outcome)
                   /\ calls' = [calls EXCEPT ![p] =
                         Emit(Throw(p, "RoomUnavailableError", "Room is not available"),
                              RoomUnavailableEvent(data, first.id),
                              emitReturns(outcome))]
           ELSE /\ bus' = bus
                /\ calls' = [calls EXCEPT ![p] = [@ EXCEPT !.pc = "create"]]
    /\ History(p)
    /\ UNCHANGED <<bookings, rooms, cache, cacheUp, now,
                   dispatch, limiter, memory>>

\* bookingRepository.create(data): the INSERT, which the table's constraints
\* may reject; createBooking does not catch the rejection
create(p) ==
    /\ calls[p].pc = "create"
    /\ LET data == calls[p].data
       IN  IF InsertAllowed(data)
           THEN /\ bookings' = Append(bookings, NewBooking(data))
                /\ calls' = [calls EXCEPT ![p] =
                      [@ EXCEPT !.booking = bookings'[Len(bookings')],
                          !.pc = IF data.idempotencyKey # NoKey
                                 THEN "cacheIdempotency" ELSE "cacheBooking"]]
           ELSE /\ bookings' = bookings
                /\ calls' = [calls EXCEPT ![p] =
                      Throw(p, "DatabaseError",
                            IF data.roomId \in rooms
                            THEN "duplicate key value violates unique constraint"
                            ELSE "violates foreign key constraint")]
    /\ History(p)
    /\ UNCHANGED <<rooms, cache, cacheUp, now, bus,
                   dispatch, limiter, memory>>

\* cache.set(`idempotency:${key}`, booking.id, config.cache.idempotencyTtl)
cacheIdempotency(p) ==
    /\ calls[p].pc = "cacheIdempotency"
    /\ cache' = CacheSet(IdempotencyCacheKey(calls[p].data.idempotencyKey),
                         calls[p].booking.id, IdempotencyTtl)
    /\ calls' = [calls EXCEPT ![p] = [@ EXCEPT !.pc = "cacheBooking"]]
    /\ UNCHANGED <<bookings, rooms, cacheUp, now, firstReturned, bus,
                   dispatch, limiter, memory>>

\* cache.set(`booking:${booking.id}`, booking, config.cache.ttl), then emit
\* booking.created and return the booking
cacheBooking(p) ==
    /\ calls[p].pc = "cacheBooking"
    /\ cache' = CacheSet(BookingCacheKey(calls[p].booking.id), calls[p].booking, CacheTtl)
    /\ \E outcome \in PublishOutcomes :
          /\ bus' = emit(BookingCreatedEvent(calls[p].booking), outcome)
          /\ calls' = [calls EXCEPT ![p] =
                Emit(Return(p, calls[p].booking),
                     BookingCreatedEvent(calls[p].booking), emitReturns(outcome))]
    /\ History(p)
    /\ UNCHANGED <<bookings, rooms, cacheUp, now,
                   dispatch, limiter, memory>>

----------------------------------------------------------------------------
(* BookingService.cancelBooking *)

\* mutant: the UPDATE also clears idempotency_key
updateClearingKey(id, status, cancelledAt) ==
    [bookings EXCEPT ![id] = [@ EXCEPT !.status = status, !.cancelledAt = cancelledAt,
                                       !.idempotencyKey = NoKey]]

\* mutant: the UPDATE stamps cancelled_at and leaves the status as it was
updateKeepingStatus(id, status, cancelledAt) ==
    [bookings EXCEPT ![id] = [@ EXCEPT !.cancelledAt = cancelledAt]]

\* PostgresBookingRepository.update(id, {status, cancelledAt}): the table after
\* the UPDATE
update(id, status, cancelledAt) ==
    [bookings EXCEPT ![id] = [@ EXCEPT !.status = status, !.cancelledAt = cancelledAt]]

\* a request enters cancelBooking(id, reason)
cancelBooking(p, id, reason) ==
    /\ calls[p].pc = "idle"
    /\ calls' = [calls EXCEPT ![p] =
            [IdleCall EXCEPT !.op = "cancel", !.id = id, !.reason = reason,
                !.pc = "cancelFind"]]
    /\ UNCHANGED <<bookings, rooms, cache, cacheUp, now, firstReturned, bus,
                   dispatch, limiter, memory>>

\* bookingRepository.findById(id) and the two checks on it
cancelFind(p) ==
    /\ calls[p].pc = "cancelFind"
    /\ LET booking == findById(calls[p].id)
       IN  calls' = [calls EXCEPT ![p] =
                IF booking = NoBooking
                THEN Throw(p, "BookingNotFoundError", "Booking not found")
                ELSE IF booking.status = "CANCELLED"
                THEN Throw(p, "BookingAlreadyCancelledError", "already cancelled")
                ELSE [@ EXCEPT !.pc = "cancelUpdate"]]
    /\ UNCHANGED <<bookings, rooms, cache, cacheUp, now, firstReturned, bus,
                   dispatch, limiter, memory>>

\* bookingRepository.update(id, {status: CANCELLED, cancelledAt: new Date()})
cancelUpdate(p) ==
    /\ calls[p].pc = "cancelUpdate"
    /\ IF calls[p].id \in 1..Len(bookings)
       THEN /\ bookings' = update(calls[p].id, "CANCELLED", now)
            /\ calls' = [calls EXCEPT ![p] =
                  [@ EXCEPT !.booking = bookings'[calls[p].id], !.pc = "cancelCache"]]
       ELSE /\ bookings' = bookings
            /\ calls' = [calls EXCEPT ![p] =
                  Throw(p, "BookingNotFoundError", "Booking not found")]
    /\ UNCHANGED <<rooms, cache, cacheUp, now, firstReturned, bus,
                   dispatch, limiter, memory>>

\* cache.delete(`booking:${id}`), then emit booking.cancelled and return
cancelCache(p) ==
    /\ calls[p].pc = "cancelCache"
    /\ cache' = CacheDelete(BookingCacheKey(calls[p].id))
    /\ \E outcome \in PublishOutcomes :
          /\ bus' = emit(BookingCancelledEvent(calls[p].booking, calls[p].reason),
                         outcome)
          /\ calls' = [calls EXCEPT ![p] =
                Emit(Return(p, calls[p].booking),
                     BookingCancelledEvent(calls[p].booking, calls[p].reason),
                     emitReturns(outcome))]
    /\ UNCHANGED <<bookings, rooms, cacheUp, now, firstReturned,
                   dispatch, limiter, memory>>

----------------------------------------------------------------------------
(* PostgresRoomRepository.getAvailability, for the day that starts at time 0 *)

StartOfDay == 0                           \* setHours(0, 0, 0, 0)
EndOfDay == 24 * HourMs - 1               \* setHours(23, 59, 59, 999)
BusinessStart == 8 * HourMs               \* setHours(8, 0, 0, 0)
BusinessEnd == 18 * HourMs                \* setHours(18, 0, 0, 0)

TimeSlot(startTime, endTime) == [startTime |-> startTime, endTime |-> endTime]

Max(a, b) == IF a >= b THEN a ELSE b

\* the rows the query of getAvailability selects
BookedRows(roomId) ==
    {b \in Rows :
        /\ b.roomId = roomId
        /\ b.status # "CANCELLED"
        /\ b.startTime >= StartOfDay
        /\ b.startTime < EndOfDay}

\* the orders in which the query may return them: ORDER BY start_time, rows
\* with equal start_time in any order
BookedSlotsOrders(roomId) ==
    LET rows == BookedRows(roomId)
        n == Cardinality(rows)
    IN  {slots \in [1..n -> {TimeSlot(b.startTime, b.endTime) : b \in rows}] :
            /\ \E f \in [1..n -> rows] :
                  /\ \A i, j \in 1..n : i # j => f[i] # f[j]
                  /\ \A i \in 1..n : slots[i] = TimeSlot(f[i].startTime, f[i].endTime)
            /\ \A i, j \in 1..n : i < j => slots[i].startTime <= slots[j].startTime}

\* mutant: the slot between the last booking and the end of the day is left out
calculateAvailableSlotsNoClosing(dayStart, dayEnd, bookedSlots) ==
    LET RECURSIVE Walk(_, _, _)
        Walk(i, currentStart, availableSlots) ==
            IF i > Len(bookedSlots)
            THEN availableSlots
            ELSE Walk(i + 1, Max(currentStart, bookedSlots[i].endTime),
                      IF currentStart < bookedSlots[i].startTime
                      THEN Append(availableSlots,
                                  TimeSlot(currentStart, bookedSlots[i].startTime))
                      ELSE availableSlots)
    IN  IF Len(bookedSlots) = 0
        THEN <<TimeSlot(dayStart, dayEnd)>>
        ELSE Walk(1, dayStart, <<>>)

\* mutant: the cursor moves to the end of each booked slot, also backwards
calculateAvailableSlotsNoMax(dayStart, dayEnd, bookedSlots) ==
    LET RECURSIVE Walk(_, _, _)
        Walk(i, currentStart, availableSlots) ==
            IF i > Len(bookedSlots)
            THEN IF currentStart < dayEnd
                 THEN Append(availableSlots, TimeSlot(currentStart, dayEnd))
                 ELSE availableSlots
            ELSE Walk(i + 1, bookedSlots[i].endTime,
                      IF currentStart < bookedSlots[i].startTime
                      THEN Append(availableSlots,
                                  TimeSlot(currentStart, bookedSlots[i].startTime))
                      ELSE availableSlots)
    IN  IF Len(bookedSlots) = 0
        THEN <<TimeSlot(dayStart, dayEnd)>>
        ELSE Walk(1, dayStart, <<>>)

calculateAvailableSlots(dayStart, dayEnd, bookedSlots) ==
    LET RECURSIVE Walk(_, _, _)
        \* the for loop from its i-th slot on, then the closing slot
        Walk(i, currentStart, availableSlots) ==
            IF i > Len(bookedSlots)
            THEN IF currentStart < dayEnd
                 THEN Append(availableSlots, TimeSlot(currentStart, dayEnd))
                 ELSE availableSlots
            ELSE Walk(i + 1, Max(currentStart, bookedSlots[i].endTime),
                      IF currentStart < bookedSlots[i].startTime
                      THEN Append(availableSlots,
                                  TimeSlot(currentStart, bookedSlots[i].startTime))
                      ELSE availableSlots)
    IN  IF Len(bookedSlots) = 0
        THEN <<TimeSlot(dayStart, dayEnd)>>
        ELSE Walk(1, dayStart, <<>>)

\* a request enters getAvailability(roomId, date)
getAvailability(p, roomId) ==
    /\ calls[p].pc = "idle"
    /\ calls' = [calls EXCEPT ![p] =
            [IdleCall EXCEPT !.op = "availability", !.data.roomId = roomId,
                !.pc = "availabilityFindRoom"]]
    /\ UNCHANGED <<bookings, rooms, cache, cacheUp, now, firstReturned, bus,
                   dispatch, limiter, memory>>

\* findById(roomId): null is returned for a room that does not exist, which
\* RoomService.getRoomAvailability turns into RoomNotFoundError
availabilityFindRoom(p) ==
    /\ calls[p].pc = "availabilityFindRoom"
    /\ calls' = [calls EXCEPT ![p] =
            IF calls[p].data.roomId \notin rooms
            THEN IF calls[p].op = "roomAvailability"
                 THEN Throw(p, "RoomNotFoundError", "Room not found")
                 ELSE [@ EXCEPT !.pc = "done"]
            ELSE [@ EXCEPT !.pc = "availabilityQuery"]]
    /\ UNCHANGED <<bookings, rooms, cache, cacheUp, now, firstReturned, bus,
                   dispatch, limiter, memory>>

\* the query of the room's bookings of the day, then calculateAvailableSlots
availabilityQuery(p) ==
    /\ calls[p].pc = "availabilityQuery"
    /\ \E bookedSlots \in BookedSlotsOrders(calls[p].data.roomId) :
          calls' = [calls EXCEPT ![p] =
              [@ EXCEPT !.pc = IF calls[p].op = "roomAvailability"
                               THEN "roomAvailabilityStore" ELSE "done",
                  !.availability =
                      [roomId |-> calls[p].data.roomId,
                       availableSlots |->
                          calculateAvailableSlots(BusinessStart, BusinessEnd, bookedSlots),
                       bookedSlots |-> bookedSlots,
                       dateFormat |-> "Date"]]]
    /\ UNCHANGED <<bookings, rooms, cache, cacheUp, now, firstReturned, bus,
                   dispatch, limiter, memory>>

----------------------------------------------------------------------------
(* RoomService.getRoomAvailability, for the day that starts at time 0 *)

\* a request enters getRoomAvailability(roomId, date)
getRoomAvailability(p, roomId) ==
    /\ calls[p].pc = "idle"
    /\ calls' = [calls EXCEPT ![p] =
            [IdleCall EXCEPT !.op = "roomAvailability", !.data.roomId = roomId,
                !.pc = "roomAvailabilityCache"]]
    /\ UNCHANGED <<bookings, rooms, cache, cacheUp, now, firstReturned, bus,
                   dispatch, limiter, memory>>

\* cache.get(cacheKey); a hit is returned as it is, a miss goes on to
\* roomRepository.getAvailability
roomAvailabilityCache(p) ==
    /\ calls[p].pc = "roomAvailabilityCache"
    /\ LET cached == CacheGet(AvailabilityCacheKey(calls[p].data.roomId, StartOfDay))
       IN  calls' = [calls EXCEPT ![p] =
                IF cached # NoAvailability
                THEN [@ EXCEPT !.pc = "done", !.availability = cached]
                ELSE [@ EXCEPT !.pc = "availabilityFindRoom"]]
    /\ UNCHANGED <<bookings, rooms, cache, cacheUp, now, firstReturned, bus,
                   dispatch, limiter, memory>>

\* cache.set(cacheKey, availability, config.cache.ttl), then return the snapshot
roomAvailabilityStore(p) ==
    /\ calls[p].pc = "roomAvailabilityStore"
    /\ cache' = CacheSet(AvailabilityCacheKey(calls[p].data.roomId, StartOfDay),
                         calls[p].availability, CacheTtl)
    /\ calls' = [calls EXCEPT ![p] = [@ EXCEPT !.pc = "done"]]
    /\ UNCHANGED <<bookings, rooms, cacheUp, now, firstReturned, bus,
                   dispatch, limiter, memory>>

----------------------------------------------------------------------------
(* RabbitMQEventBus: connection, subscription and consumers *)

\* how many consumer callbacks may be running at once
MaxInFlight == 2

\* eventBus.connect(): open the connection, then setupConsumers, which
\* declares and binds a queue for every event type that has a handler
connect ==
    /\ ~bus.isConnected
    /\ bus' = [bus EXCEPT !.isConnected = TRUE, !.bound = @ \cup bus.handlers]
    /\ UNCHANGED <<bookings, rooms, cache, cacheUp, now, calls, firstReturned,
                   dispatch, limiter, memory>>

\* eventBus.on(event, handler): record the handler and, when connected,
\* create the consumer
on(event) ==
    /\ event \notin bus.handlers
    /\ bus' = [bus EXCEPT !.handlers = @ \cup {event},
                          !.bound = IF bus.isConnected THEN @ \cup {event} ELSE @]
    /\ UNCHANGED <<bookings, rooms, cache, cacheUp, now, calls, firstReturned,
                   dispatch, limiter, memory>>

\* the messages of `type` among the callbacks that have not been requeued
Unacked(type) ==
    LET F[i \in 0..Len(bus.inflight)] ==
            IF i = 0 THEN <<>>
            ELSE IF bus.inflight[i].msg.content.type = type /\ ~bus.inflight[i].requeued
                 THEN Append(F[i - 1], [bus.inflight[i].msg EXCEPT !.redelivered = TRUE])
                 ELSE F[i - 1]
    IN  F[Len(bus.inflight)]

\* connection.on('close') / connection.on('error'): isConnected becomes false;
\* the broker puts the unacknowledged messages back at the head of their
\* queues, while the callbacks handling them keep running
connectionClosed ==
    /\ bus.isConnected
    /\ bus' = [bus EXCEPT
            !.isConnected = FALSE,
            !.queue = [e \in EventTypes |-> Unacked(e) \o bus.queue[e]],
            !.inflight = [i \in 1..Len(bus.inflight) |->
                             [bus.inflight[i] EXCEPT !.requeued = TRUE]]]
    /\ UNCHANGED <<bookings, rooms, cache, cacheUp, now, calls, firstReturned,
                   dispatch, limiter, memory>>

\* the consumer callback is entered with the next message of a queue; the
\* handler logs, awaits simulateNotification and simulateAnalytics, and comes
\* to its first cache call
consume(event) ==
    /\ bus.isConnected
    /\ event \in bus.bound
    /\ event \in bus.handlers
    /\ bus.queue[event] # <<>>
    /\ Len(bus.inflight) < MaxInFlight
    /\ bus' = [bus EXCEPT
            !.queue[event] = Tail(@),
            !.inflight = Append(@,
                [msg |-> Head(bus.queue[event]),
                 pc |-> IF event = "booking.cancelled" THEN "delete" ELSE "keys",
                 keys |-> {}, requeued |-> FALSE])]
    /\ UNCHANGED <<bookings, rooms, cache, cacheUp, now, calls, firstReturned,
                   dispatch, limiter, memory>>

----------------------------------------------------------------------------
(* handleBookingCreated and handleBookingCancelled, run by callback i *)

\* the keys that match `availability:${booking.roomId}:${dateKey}*`
AvailabilityKeys(booking) ==
    {k \in DOMAIN cache :
        k = AvailabilityCacheKey(booking.roomId, booking.startTime)}

\* handleBookingCancelled: cache.delete(`booking:${booking.id}`)
handlerDelete(i) ==
    /\ i \in 1..Len(bus.inflight)
    /\ bus.inflight[i].pc = "delete"
    /\ cache' = CacheDelete(BookingCacheKey(bus.inflight[i].msg.content.booking.id))
    /\ bus' = [bus EXCEPT !.inflight[i].pc = "keys"]
    /\ UNCHANGED <<bookings, rooms, cacheUp, now, calls, firstReturned,
                   dispatch, limiter, memory>>

\* cache.deletePattern: client.keys(pattern); no key, or an error of Redis
\* which deletePattern catches, ends the handler
handlerKeys(i) ==
    /\ i \in 1..Len(bus.inflight)
    /\ bus.inflight[i].pc = "keys"
    /\ LET keys == IF cacheUp THEN AvailabilityKeys(bus.inflight[i].msg.content.booking)
                   ELSE {}
       IN  bus' = [bus EXCEPT !.inflight[i].keys = keys,
                              !.inflight[i].pc = IF keys = {} THEN "ack" ELSE "del"]
    /\ UNCHANGED <<bookings, rooms, cache, cacheUp, now, calls, firstReturned,
                   dispatch, limiter, memory>>

\* mutant: the keys found are left in place
DelKeeping(keys) == cache

\* client.del(...keys)
Del(keys) ==
    IF cacheUp THEN [k \in DOMAIN cache \ keys |-> cache[k]] ELSE cache

\* cache.deletePattern: client.del(...keys), of the keys found one step before
handlerDel(i) ==
    /\ i \in 1..Len(bus.inflight)
    /\ bus.inflight[i].pc = "del"
    /\ cache' = Del(bus.inflight[i].keys)
    /\ bus' = [bus EXCEPT !.inflight[i].pc = "ack"]
    /\ UNCHANGED <<bookings, rooms, cacheUp, now, calls, firstReturned,
                   dispatch, limiter, memory>>

\* the handler has returned: channel.ack(msg), which settles the message
\* unless the broker has requeued it already
ack(i) ==
    /\ i \in 1..Len(bus.inflight)
    /\ bus.inflight[i].pc = "ack"
    /\ bus' = [bus EXCEPT !.inflight =
            SubSeq(bus.inflight, 1, i - 1)
               \o SubSeq(bus.inflight, i + 1, Len(bus.inflight))]
    /\ UNCHANGED <<bookings, rooms, cache, cacheUp, now, calls, firstReturned,
                   dispatch, limiter, memory>>

----------------------------------------------------------------------------
(* BookingService.getBooking *)

\* a request enters getBooking(id)
getBooking(p, id) ==
    /\ calls[p].pc = "idle"
    /\ calls' = [calls EXCEPT ![p] =
            [IdleCall EXCEPT !.op = "get", !.id = id, !.pc = "getBookingCache"]]
    /\ UNCHANGED <<bookings, rooms, cache, cacheUp, now, firstReturned, bus,
                   dispatch, limiter, memory>>

\* cache.get(`booking:${id}`); a hit is returned as it is
getBookingCache(p) ==
    /\ calls[p].pc = "getBookingCache"
    /\ LET cachedBooking == CacheGet(BookingCacheKey(calls[p].id))
       IN  calls' = [calls EXCEPT ![p] =
                IF cachedBooking # NoBooking
                THEN Return(p, cachedBooking)
                ELSE [@ EXCEPT !.pc = "getBookingFind"]]
    /\ UNCHANGED <<bookings, rooms, cache, cacheUp, now, firstReturned, bus,
                   dispatch, limiter, memory>>

\* bookingRepository.findById(id)
getBookingFind(p) ==
    /\ calls[p].pc = "getBookingFind"
    /\ LET booking == findById(calls[p].id)
       IN  calls' = [calls EXCEPT ![p] =
                IF booking = NoBooking
                THEN Throw(p, "BookingNotFoundError", "Booking not found")
                ELSE [@ EXCEPT !.booking = booking, !.pc = "getBookingStore"]]
    /\ UNCHANGED <<bookings, rooms, cache, cacheUp, now, firstReturned, bus,
                   dispatch, limiter, memory>>

\* cache.set(`booking:${id}`, booking, config.cache.ttl), then return the booking
getBookingStore(p) ==
    /\ calls[p].pc = "getBookingStore"
    /\ cache' = CacheSet(BookingCacheKey(calls[p].id), calls[p].booking, CacheTtl)
    /\ calls' = [calls EXCEPT ![p] = Return(p, calls[p].booking)]
    /\ UNCHANGED <<bookings, rooms, cacheUp, now, firstReturned, bus,
                   dispatch, limiter, memory>>

----------------------------------------------------------------------------
(* RoomService.deleteRoom *)

\* mutant: the rooms table gives up a row that bookings reference
DeleteAllowedUnchecked(id) == TRUE

\* bookings.room_id REFERENCES rooms(id), with no ON DELETE action: the DELETE
\* of a room is rejected while any booking row, whatever its status, names it
DeleteAllowed(id) == \A b \in Rows : b.roomId # id

\* deleteRoom(id): roomRepository.delete(id), DELETE FROM rooms WHERE id = $1;
\* no row deleted is RoomNotFoundError, a rejected DELETE is not caught
deleteRoom(p, id) ==
    /\ calls[p].pc = "idle"
    /\ LET c == [IdleCall EXCEPT !.op = "deleteRoom", !.id = id, !.pc = "done"]
       IN  IF id \notin rooms
           THEN /\ rooms' = rooms
                /\ calls' = [calls EXCEPT ![p] =
                      [c EXCEPT !.error = "RoomNotFoundError",
                                !.message = "Room not found"]]
           ELSE IF DeleteAllowed(id)
           THEN /\ rooms' = rooms \ {id}
                /\ calls' = [calls EXCEPT ![p] = c]
           ELSE /\ rooms' = rooms
                /\ calls' = [calls EXCEPT ![p] =
                      [c EXCEPT !.error = "DatabaseError",
                                !.message = "violates foreign key constraint"]]
    /\ UNCHANGED <<bookings, cache, cacheUp, now, firstReturned, bus,
                   dispatch, limiter, memory>>

----------------------------------------------------------------------------
(* BookingService.getBookings *)

\* getBookings(filter): bookingRepository.findAll(filter), returned as it is
getBookings(p, filter) ==
    /\ calls[p].pc = "idle"
    /\ \E list \in findAll(filter) :
          calls' = [calls EXCEPT ![p] =
              [IdleCall EXCEPT !.op = "list", !.filter = filter, !.list = list,
                  !.pc = "done"]]
    /\ UNCHANGED <<bookings, rooms, cache, cacheUp, now, firstReturned, bus,
                   dispatch, limiter, memory>>

----------------------------------------------------------------------------
(* errorMiddleware: the response to a call that threw *)

\* mapDomainError(error), the error being told by its class
mapDomainError(error) ==
    IF error = "BookingNotFoundError"
    THEN [statusCode |-> 404, code |-> "BOOKING_NOT_FOUND"]
    ELSE IF error = "RoomNotFoundError"
    THEN [statusCode |-> 404, code |-> "ROOM_NOT_FOUND"]
    ELSE IF error = "RoomUnavailableError"
    THEN [statusCode |-> 409, code |-> "ROOM_UNAVAILABLE"]
    ELSE IF error = "BookingAlreadyCancelledError"
    THEN [statusCode |-> 409, code |-> "BOOKING_ALREADY_CANCELLED"]
    ELSE IF error = "InvalidBookingTimeError"
    THEN [statusCode |-> 400, code |-> "INVALID_BOOKING_TIME"]
    ELSE [statusCode |-> 500, code |-> "INTERNAL_SERVER_ERROR"]

----------------------------------------------------------------------------
(* The environment *)

\* the positions at which a call awaits a query on the bookings table
StoreSteps ==
    {"resolveIdempotency", "findConflicts", "create",
     "getBookingFind", "cancelFind", "cancelUpdate"}

\* pool.query rejects: the connection to PostgreSQL is lost; no method of the
\* repository or of the service catches the error, and the call ends with it
storeFailure(p) ==
    /\ calls[p].pc \in StoreSteps
    /\ calls' = [calls EXCEPT ![p] =
            Throw(p, "Error", "Connection terminated unexpectedly")]
    /\ UNCHANGED <<bookings, rooms, cache, cacheUp, now, firstReturned, bus,
                   dispatch, limiter, memory>>

\* another process writes the bookings table directly: it sets a CONFIRMED
\* booking back to PENDING, and touches neither the cache nor the event bus
OutOfBandUpdate(id) ==
    /\ id \in 1..Len(bookings)
    /\ bookings[id].status = "CONFIRMED"
    /\ bookings' = [bookings EXCEPT ![id] = [@ EXCEPT !.status = "PENDING"]]
    /\ UNCHANGED <<rooms, cache, cacheUp, now, calls, firstReturned, bus,
                   dispatch, limiter, memory>>

\* the caller receives the outcome; the request slot is free again
Respond(p) ==
    /\ calls[p].pc = "done"
    /\ calls' = [calls EXCEPT ![p] = IdleCall]
    /\ UNCHANGED <<bookings, rooms, cache, cacheUp, now, firstReturned, bus,
                   dispatch, limiter, memory>>

\* time passes: the clock reaches t
Tick(t) ==
    /\ t > now
    /\ now' = t
    /\ UNCHANGED <<bookings, rooms, cache, cacheUp, calls, firstReturned, bus,
                   dispatch, limiter, memory>>

\* Redis drops an entry: its TTL ran out, it was evicted, or the cache was cleared
Expire(key) ==
    /\ key \in DOMAIN cache
    /\ cache' = [k \in DOMAIN cache \ {key} |-> cache[k]]
    /\ UNCHANGED <<bookings, rooms, cacheUp, now, calls, firstReturned, bus,
                   dispatch, limiter, memory>>

\* the Redis connection is lost, or comes back
CacheConnection ==
    /\ cacheUp' = ~cacheUp
    /\ UNCHANGED <<bookings, rooms, cache, now, calls, firstReturned, bus,
                   dispatch, limiter, memory>>

Step(p) ==
    \/ checkIdempotency(p) \/ resolveIdempotency(p) \/ findRoom(p)
    \/ findConflicts(p) \/ create(p) \/ cacheIdempotency(p) \/ cacheBooking(p)
    \/ cancelFind(p) \/ cancelUpdate(p) \/ cancelCache(p)
    \/ Respond(p)

\* requests are served concurrently: their calls interleave at every await
Next ==
    \/ \E p \in Procs, data \in Data({1}, CoarseTimePoints, {NoKey, 1}) :
            createBooking(p, data)
    \/ \E p \in Procs, id \in BookingIds : cancelBooking(p, id, NoReason)
    \/ \E p \in Procs : Step(p)
    \/ \E key \in DOMAIN cache : Expire(key)

Spec == Init /\ [][Next]_vars

\* requests are served one after the other: each call runs to its end before
\* the next one starts
NextSeq ==
    \/ \E data \in Data({1, 2, MissingRoom}, CoarseTimePoints,
                        {NoKey} \cup IdempotencyKeys) :
            createBooking(1, data)
    \/ \E id \in BookingIds : cancelBooking(1, id, NoReason)
    \/ Step(1)
    \/ \E key \in DOMAIN cache : Expire(key)

SpecSeq == Init /\ [][NextSeq]_vars

\* one request at a time, while cache entries expire and the Redis connection
\* comes and goes
NextCache ==
    \/ \E data \in Data({1, MissingRoom}, CoarseTimePoints, {NoKey} \cup IdempotencyKeys) :
            createBooking(1, data)
    \/ \E id \in BookingIds : cancelBooking(1, id, NoReason)
    \/ Step(1)
    \/ \E key \in DOMAIN cache : Expire(key)
    \/ CacheConnection

SpecCache == Init /\ [][NextCache]_vars

\* one request at a time, with intervals around the limits of validateBookingTimes
NextTimes ==
    \/ \E data \in Data({1, MissingRoom}, TimePoints, {NoKey, 1}) :
            createBooking(1, data)
    \/ \E id \in BookingIds, reason \in Reasons : cancelBooking(1, id, reason)
    \/ Step(1)
    \/ Tick(MinDurationMs - 1)

SpecTimes == Init /\ [][NextTimes]_vars

\* one request at a time, over two rooms; requests that the conflict check
\* refuses keep coming when the table is full
NextConflicts ==
    \/ \E data \in Data({1, 2}, CoarseTimePoints, {NoKey, 1}) :
            \/ createBooking(1, data)
            \/ createBookingOnFullTable(1, data)
    \/ \E id \in BookingIds : cancelBooking(1, id, NoReason)
    \/ Step(1)

SpecConflicts == Init /\ [][NextConflicts]_vars

\* one request at a time, reads included, while cache entries expire, the
\* Redis connection comes and goes and another process writes the table
NextRead ==
    \/ \E data \in Data({1}, CoarseTimePoints, {NoKey}) : createBooking(1, data)
    \/ findRoom(1) \/ findConflicts(1) \/ create(1) \/ cacheBooking(1)
    \/ \E id \in BookingIds : cancelBooking(1, id, NoReason)
    \/ cancelFind(1) \/ cancelUpdate(1) \/ cancelCache(1)
    \/ \E id \in BookingIds : getBooking(1, id)
    \/ getBookingCache(1) \/ getBookingFind(1) \/ getBookingStore(1)
    \/ Respond(1)
    \/ \E key \in DOMAIN cache : Expire(key)
    \/ CacheConnection
    \/ \E id \in BookingIds : OutOfBandUpdate(id)

SpecRead == Init /\ [][NextRead]_vars

\* bookings of one day are created by concurrent requests and cancelled, and
\* the availability of the day is read
NextAvailability ==
    \/ \E p \in Procs, data \in Data({1}, DayTimePoints, {NoKey}) : createBooking(p, data)
    \/ \E p \in Procs :
          findRoom(p) \/ findConflicts(p) \/ create(p) \/ cacheBooking(p) \/ Respond(p)
    \/ \E id \in BookingIds : cancelBooking(1, id, NoReason)
    \/ cancelFind(1) \/ cancelUpdate(1) \/ cancelCache(1)
    \/ \E roomId \in {1, MissingRoom} : getAvailability(1, roomId)
    \/ availabilityFindRoom(1) \/ availabilityQuery(1)

SpecAvailability == Init /\ [][NextAvailability]_vars

\* one request at a time: bookings before, inside and after the working window
\* are created and cancelled, and the availability of the day is read
NextDay ==
    \/ \E data \in Data({1}, WideDayTimePoints, {NoKey}) : createBooking(1, data)
    \/ findRoom(1) \/ findConflicts(1) \/ create(1) \/ cacheBooking(1) \/ Respond(1)
    \/ \E id \in BookingIds : cancelBooking(1, id, NoReason)
    \/ cancelFind(1) \/ cancelUpdate(1) \/ cancelCache(1)
    \/ \E roomId \in {1, MissingRoom} : getAvailability(1, roomId)
    \/ availabilityFindRoom(1) \/ availabilityQuery(1)

SpecDay == Init /\ [][NextDay]_vars

\* one request at a time, the cached availability of the day included, while
\* cache entries expire and the Redis connection comes and goes
NextRoom ==
    \/ \E data \in Data({1}, DayTimePoints, {NoKey}) : createBooking(1, data)
    \/ findRoom(1) \/ findConflicts(1) \/ create(1) \/ cacheBooking(1) \/ Respond(1)
    \/ \E id \in BookingIds : cancelBooking(1, id, NoReason)
    \/ cancelFind(1) \/ cancelUpdate(1) \/ cancelCache(1)
    \/ \E roomId \in {1, MissingRoom} : getRoomAvailability(1, roomId)
    \/ roomAvailabilityCache(1) \/ availabilityFindRoom(1) \/ availabilityQuery(1)
    \/ roomAvailabilityStore(1)
    \/ \E key \in DOMAIN cache : Expire(key)
    \/ CacheConnection

SpecRoom == Init /\ [][NextRoom]_vars

\* one booking is created, read in the availability of its day and cancelled,
\* and between two requests the consumers run the handlers, while the event
\* bus loses and recovers its connection and the Redis connection comes and
\* goes under the handlers that are running
NextBus ==
    \/ /\ bus.inflight = <<>> /\ bookings = <<>>
       /\ \E data \in Data({1}, {10 * HourMs, 12 * HourMs}, {NoKey}) :
             createBooking(1, data)
    \/ (bus.inflight = <<>> /\ findRoom(1))
    \/ (bus.inflight = <<>> /\ findConflicts(1))
    \/ (bus.inflight = <<>> /\ create(1))
    \/ (bus.inflight = <<>> /\ cacheBooking(1))
    \/ (bus.inflight = <<>> /\ Respond(1))
    \/ (bus.inflight = <<>> /\ cancelBooking(1, 1, NoReason))
    \/ (bus.inflight = <<>> /\ cancelFind(1))
    \/ (bus.inflight = <<>> /\ cancelUpdate(1))
    \/ (bus.inflight = <<>> /\ cancelCache(1))
    \/ (bus.inflight = <<>> /\ getRoomAvailability(1, 1))
    \/ (bus.inflight = <<>> /\ roomAvailabilityCache(1))
    \/ (bus.inflight = <<>> /\ availabilityFindRoom(1))
    \/ (bus.inflight = <<>> /\ availabilityQuery(1))
    \/ (bus.inflight = <<>> /\ roomAvailabilityStore(1))
    \/ connect
    \/ \E event \in EventTypes : on(event)
    \/ connectionClosed
    \/ \E event \in EventTypes : ~Running(1) /\ consume(event)
    \/ \E i \in 1..MaxInFlight : ~Running(1) /\ handlerDelete(i)
    \/ \E i \in 1..MaxInFlight : ~Running(1) /\ handlerKeys(i)
    \/ \E i \in 1..MaxInFlight : ~Running(1) /\ handlerDel(i)
    \/ \E i \in 1..MaxInFlight : ~Running(1) /\ ack(i)
    \/ (bus.inflight # <<>> /\ CacheConnection)

SpecBus == Init /\ [][NextBus]_vars

\* one booking is created, read, read in the availability of its day and
\* cancelled, and between two requests the consumers run the handlers, while
\* the Redis connection comes and goes at any moment
NextDegraded ==
    \/ /\ bus.inflight = <<>> /\ bookings = <<>>
       /\ \E data \in Data({1}, {10 * HourMs, 12 * HourMs}, {NoKey, 1}) :
             createBooking(1, data)
    \/ (bus.inflight = <<>> /\ checkIdempotency(1))
    \/ (bus.inflight = <<>> /\ resolveIdempotency(1))
    \/ (bus.inflight = <<>> /\ findRoom(1))
    \/ (bus.inflight = <<>> /\ findConflicts(1))
    \/ (bus.inflight = <<>> /\ create(1))
    \/ (bus.inflight = <<>> /\ cacheIdempotency(1))
    \/ (bus.inflight = <<>> /\ cacheBooking(1))
    \/ (bus.inflight = <<>> /\ Respond(1))
    \/ (bus.inflight = <<>> /\ cancelBooking(1, 1, NoReason))
    \/ (bus.inflight = <<>> /\ cancelFind(1))
    \/ (bus.inflight = <<>> /\ cancelUpdate(1))
    \/ (bus.inflight = <<>> /\ cancelCache(1))
    \/ (bus.inflight = <<>> /\ getBooking(1, 1))
    \/ (bus.inflight = <<>> /\ getBookingCache(1))
    \/ (bus.inflight = <<>> /\ getBookingFind(1))
    \/ (bus.inflight = <<>> /\ getBookingStore(1))
    \/ (bus.inflight = <<>> /\ getRoomAvailability(1, 1))
    \/ (bus.inflight = <<>> /\ roomAvailabilityCache(1))
    \/ (bus.inflight = <<>> /\ availabilityFindRoom(1))
    \/ (bus.inflight = <<>> /\ availabilityQuery(1))
    \/ (bus.inflight = <<>> /\ roomAvailabilityStore(1))
    \/ connect
    \/ \E event \in EventTypes : on(event)
    \/ \E event \in EventTypes : ~Running(1) /\ consume(event)
    \/ \E i \in 1..MaxInFlight : ~Running(1) /\ handlerDelete(i)
    \/ \E i \in 1..MaxInFlight : ~Running(1) /\ handlerKeys(i)
    \/ \E i \in 1..MaxInFlight : ~Running(1) /\ handlerDel(i)
    \/ \E i \in 1..MaxInFlight : ~Running(1) /\ ack(i)
    \/ CacheConnection

SpecDegraded == Init /\ [][NextDegraded]_vars

\* the filters of the listing requests
Filters ==
    [roomId : {Null, 1}, userId : {Null, 2}, status : {"", "CONFIRMED"},
     startTimeFrom : {NoTime, 12 * HourMs}, startTimeTo : {NoTime, 12 * HourMs}]

\* two users book and cancel in two rooms, one request at a time, and list
\* the bookings; the bookings read are left in the cache
NextList ==
    \/ \E data \in DataBy({1, 2}, {1, 2}, {10 * HourMs, 12 * HourMs, 14 * HourMs},
                           {NoKey}) : createBooking(1, data)
    \/ findRoom(1) \/ findConflicts(1) \/ create(1) \/ cacheBooking(1) \/ Respond(1)
    \/ \E id \in BookingIds : cancelBooking(1, id, NoReason)
    \/ cancelFind(1) \/ cancelUpdate(1) \/ cancelCache(1)
    \/ \E filter \in Filters : getBookings(1, filter)
    \/ CacheConnection

SpecList == Init /\ [][NextList]_vars

\* the requests of one client, any query of which PostgreSQL may fail
NextStore ==
    \/ \E data \in Data({1}, CoarseTimePoints, {NoKey, 1}) : createBooking(1, data)
    \/ checkIdempotency(1) \/ resolveIdempotency(1) \/ findRoom(1)
    \/ findConflicts(1) \/ create(1) \/ cacheIdempotency(1) \/ cacheBooking(1)
    \/ \E id \in BookingIds : cancelBooking(1, id, NoReason)
    \/ cancelFind(1) \/ cancelUpdate(1) \/ cancelCache(1)
    \/ \E id \in BookingIds : getBooking(1, id)
    \/ getBookingCache(1) \/ getBookingFind(1) \/ getBookingStore(1)
    \/ storeFailure(1)
    \/ Respond(1)

SpecStore == Init /\ [][NextStore]_vars

\* one client books and cancels while another deletes rooms
NextRooms ==
    \/ \E data \in Data({1, 2}, CoarseTimePoints, {NoKey}) : createBooking(1, data)
    \/ findRoom(1) \/ findConflicts(1) \/ create(1) \/ cacheBooking(1) \/ Respond(1)
    \/ \E id \in BookingIds : cancelBooking(1, id, NoReason)
    \/ cancelFind(1) \/ cancelUpdate(1) \/ cancelCache(1)
    \/ \E id \in {1, 2, MissingRoom} : deleteRoom(2, id)
    \/ Respond(2)

SpecRooms == Init /\ [][NextRooms]_vars

\* two clients: one creates and cancels bookings, the other reads and cancels
\* them, their steps interleaved; Redis answers and nothing expires
NextCoherence ==
    \/ \E data \in Data({1}, CoarseTimePoints, {NoKey}) : createBooking(1, data)
    \/ findRoom(1) \/ findConflicts(1) \/ create(1) \/ cacheBooking(1)
    \/ \E p \in Procs, id \in BookingIds : cancelBooking(p, id, NoReason)
    \/ \E p \in Procs : cancelFind(p) \/ cancelUpdate(p) \/ cancelCache(p) \/ Respond(p)
    \/ \E id \in BookingIds : getBooking(2, id)
    \/ getBookingCache(2) \/ getBookingFind(2) \/ getBookingStore(2)

SpecCoherence == Init /\ [][NextCoherence]_vars

----------------------------------------------------------------------------
(* RabbitMQEventBus: handler lists and the dispatch loop of a consumer *)

\* handlers a run may register
MaxHandlers == 2
\* messages a run may publish
MaxPublished == 2

HandlerIds == 1..MaxHandlers

\* message bodies: what JSON.stringify(payload) produced, and bytes of another
\* publisher that are not JSON
Contents == {"{\"booking\":{}}", "<booking/>"}

\* JSON.parse(msg.content.toString()) returns / throws SyntaxError
Parses(content) == content = "{\"booking\":{}}"

\* the ids of a handler array, in array order
Ids(list) == [i \in 1..Len(list) |-> list[i].id]

Registered == UNION {{h.id : h \in {dispatch.handlers[e][i] :
                                      i \in 1..Len(dispatch.handlers[e])}} :
                        e \in EventTypes}

\* handlers.push(handler): on(event, handler), and once(event, handler), which
\* registers a wrapper through on
Push(event, id, isOnce) ==
    /\ id \notin Registered
    /\ dispatch' = [dispatch EXCEPT !.handlers[event] =
            Append(@, [id |-> id, once |-> isOnce])]
    /\ UNCHANGED <<bookings, rooms, cache, cacheUp, now, calls, firstReturned, bus,
                   limiter, memory>>

onHandler(event, id) == Push(event, id, FALSE)

once(event, id) == Push(event, id, TRUE)

\* off(event, handler), which a once wrapper calls on itself:
\* handlers.splice(index, 1) at the handler's position
off(list, id) == SelectSeq(list, LAMBDA h : h.id # id)

\* a message with routing key `event` reaches the queue of the event's consumer
publish(event, content) ==
    /\ dispatch.published < MaxPublished
    /\ dispatch.handlers[event] # <<>>
    /\ dispatch' = [dispatch EXCEPT
            !.queue = Append(@, [event |-> event, content |-> content,
                                 redelivered |-> FALSE]),
            !.published = @ + 1]
    /\ UNCHANGED <<bookings, rooms, cache, cacheUp, now, calls, firstReturned, bus,
                   limiter, memory>>

\* the consumer callback starts on the message at the head of the queue:
\* JSON.parse, then the for...of loop over the live handler array; a
\* SyntaxError goes to the outer catch, which nacks with requeue
deliver ==
    /\ dispatch.callback = NoCallback
    /\ dispatch.queue # <<>>
    /\ LET msg == Head(dispatch.queue)
           start == [state |-> "handlers", msg |-> msg, index |-> 0,
                     registered |-> Ids(dispatch.handlers[msg.event]),
                     invoked |-> <<>>, threw |-> {}]
       IN  dispatch' =
              IF Parses(msg.content)
              THEN [dispatch EXCEPT !.queue = Tail(@), !.callback = start]
              ELSE [dispatch EXCEPT
                       !.queue = <<[msg EXCEPT !.redelivered = TRUE]>> \o Tail(@),
                       !.last = [start EXCEPT !.state = "nack"]]
    /\ UNCHANGED <<bookings, rooms, cache, cacheUp, now, calls, firstReturned, bus,
                   limiter, memory>>

\* one turn of the loop: the array iterator yields handlers[index] if the
\* array is that long, the handler is called (a once wrapper first takes
\* itself off the array) and awaited, and what it throws is caught and logged
invoke(throws) ==
    LET c == dispatch.callback IN
    /\ c.state = "handlers"
    /\ c.index < Len(dispatch.handlers[c.msg.event])
    /\ LET h == dispatch.handlers[c.msg.event][c.index + 1]
       IN  dispatch' = [dispatch EXCEPT
              !.handlers[c.msg.event] = IF h.once THEN off(@, h.id) ELSE @,
              !.callback = [c EXCEPT !.index = @ + 1,
                                     !.invoked = Append(@, h.id),
                                     !.threw = IF throws THEN @ \cup {h.id} ELSE @]]
    /\ UNCHANGED <<bookings, rooms, cache, cacheUp, now, calls, firstReturned, bus,
                   limiter, memory>>

\* the iterator is exhausted: this.channel?.ack(msg)
settle ==
    LET c == dispatch.callback IN
    /\ c.state = "handlers"
    /\ c.index >= Len(dispatch.handlers[c.msg.event])
    /\ dispatch' = [dispatch EXCEPT !.callback = NoCallback,
                                    !.last = [c EXCEPT !.state = "ack"]]
    /\ UNCHANGED <<bookings, rooms, cache, cacheUp, now, calls, firstReturned, bus,
                   limiter, memory>>

NextDispatch ==
    \/ \E event \in EventTypes, id \in HandlerIds : onHandler(event, id)
    \/ \E event \in EventTypes, id \in HandlerIds : once(event, id)
    \/ \E event \in EventTypes, content \in Contents : publish(event, content)
    \/ deliver
    \/ \E throws \in BOOLEAN : invoke(throws)
    \/ settle

SpecDispatch == Init /\ [][NextDispatch]_vars

----------------------------------------------------------------------------
(* RateLimiter and the rateLimit middleware *)

\* config.rateLimit.windowMs and maxRequests, scaled down
WindowMs == 3
MaxRequests == 2
\* the last instant of the clock
MaxClock == 5

\* entries.filter(entry => entry.windowStart > cutoff)
Within(entries, cutoff) == SelectSeq(entries, LAMBDA entry : entry.windowStart > cutoff)

RECURSIVE Sum(_)
\* entries.reduce((sum, entry) => sum + entry.count, 0)
Sum(entries) ==
    IF entries = <<>> THEN 0 ELSE Head(entries).count + Sum(Tail(entries))

\* Math.ceil(ms / 1000)
CeilSeconds(ms) == (ms + 999) \div 1000

\* mutant: check records the request also when it denies it
checkRecordingDenied(key) ==
    LET stored == IF key \in DOMAIN limiter.windows THEN limiter.windows[key] ELSE <<>>
        kept == Within(stored, now - WindowMs)
        count == Sum(kept)
        entries == Append(kept, [count |-> 1, windowStart |-> now])
    IN  [allowed |-> count < MaxRequests,
         remaining |-> Max(0, MaxRequests - count),
         resetTime |-> entries[1].windowStart + WindowMs,
         windows |-> [k \in DOMAIN limiter.windows \cup {key} |->
                         IF k = key THEN entries ELSE limiter.windows[k]]]

\* RateLimiter.check(key): what it returns, and the Map it leaves
check(key) ==
    LET stored == IF key \in DOMAIN limiter.windows THEN limiter.windows[key] ELSE <<>>
        kept == Within(stored, now - WindowMs)
        count == Sum(kept)
        allowed == count < MaxRequests
        entries == IF allowed
                   THEN Append(kept, [count |-> 1, windowStart |-> now])
                   ELSE kept
    IN  [allowed |-> allowed,
         remaining |-> Max(0, MaxRequests - count),
         resetTime |-> IF entries # <<>>
                       THEN entries[1].windowStart + WindowMs
                       ELSE now + WindowMs,
         windows |-> IF allowed
                     THEN [k \in DOMAIN limiter.windows \cup {key} |->
                              IF k = key THEN entries ELSE limiter.windows[k]]
                     ELSE limiter.windows]

\* the rateLimit middleware on a request of client `key`: the headers, then
\* 429 with retryAfter or next()
rateLimit(key) ==
    /\ LET checked == check(key)
       IN  limiter' = [limiter EXCEPT
              !.windows = checked.windows,
              !.allowed[key] = IF checked.allowed THEN Append(@, now) ELSE @,
              !.denied[key] = @ \/ ~checked.allowed,
              !.last = [op |-> "rateLimit", key |-> key,
                        allowed |-> checked.allowed,
                        remaining |-> checked.remaining,
                        reset |-> CeilSeconds(checked.resetTime),
                        status |-> IF checked.allowed THEN 200 ELSE 429,
                        retryAfter |-> IF checked.allowed THEN 0
                                       ELSE CeilSeconds(checked.resetTime - now)]]
    /\ UNCHANGED <<bookings, rooms, cache, cacheUp, now, calls, firstReturned, bus,
                   dispatch, memory>>

\* RateLimiter.cleanup(), run by setInterval
cleanup ==
    /\ LET kept == [k \in DOMAIN limiter.windows |->
                      Within(limiter.windows[k], now - WindowMs)]
       IN  limiter' = [limiter EXCEPT !.windows =
              [k \in {j \in DOMAIN kept : kept[j] # <<>>} |-> kept[k]]]
    /\ limiter'.windows # limiter.windows
    /\ UNCHANGED <<bookings, rooms, cache, cacheUp, now, calls, firstReturned, bus,
                   dispatch, memory>>

NextLimiter ==
    \/ \E key \in ClientKeys : rateLimit(key)
    \/ cleanup
    \/ \E t \in 1..MaxClock : Tick(t)

SpecLimiter == Init /\ [][NextLimiter]_vars

----------------------------------------------------------------------------
(* InMemoryCache *)

\* keys and patterns are strings, written as the sequences of their characters
MemoryKeys == {<<"u", "1">>, <<"u", "*">>, <<"o", "1">>}
Patterns == {<<"u", "*">>, <<"*">>, <<"u", "*", "*">>, <<"o">>, <<"*", "u">>}
MemoryValues == {1, 2}
\* set(key, value) without ttlSeconds
NoTtl == -1
TtlSeconds == {NoTtl, 1}
\* instants the clock moves to: the expiry of a one-second entry set at 0, and
\* the millisecond after it
MemoryTimes == {1000, 1001}

\* mutant: every '*' of the pattern is removed
RemoveEvery(string, char) == SelectSeq(string, LAMBDA c : c # char)

RECURSIVE RemoveFirst(_, _)
\* pattern.replace('*', ''): a string pattern replaces the first occurrence only
RemoveFirst(string, char) ==
    IF string = <<>> THEN <<>>
    ELSE IF Head(string) = char THEN Tail(string)
    ELSE <<Head(string)>> \o RemoveFirst(Tail(string), char)

\* key.startsWith(prefix)
StartsWith(key, prefix) ==
    /\ Len(prefix) <= Len(key)
    /\ SubSeq(key, 1, Len(prefix)) = prefix

\* this.cache.delete(key) on the Map
MapDelete(map, keys) == [k \in DOMAIN map \ keys |-> map[k]]

\* this.cache.set(key, entry) on the Map
MapSet(map, key, entry) ==
    [k \in DOMAIN map \cup {key} |-> IF k = key THEN entry ELSE map[k]]

\* get(key)
get(key) ==
    /\ LET present == key \in DOMAIN memory.cache
           expired == present /\ now > memory.cache[key].expiresAt
       IN  memory' = [memory EXCEPT
              !.cache = IF expired THEN MapDelete(@, {key}) ELSE @,
              !.last = [op |-> "get", key |-> key,
                        result |-> IF present /\ ~expired
                                   THEN memory.cache[key].value ELSE Null]]
    /\ UNCHANGED <<bookings, rooms, cache, cacheUp, now, calls, firstReturned, bus,
                   dispatch, limiter>>

\* set(key, value, ttlSeconds)
set(key, value, ttlSeconds) ==
    /\ LET ttl == IF ttlSeconds # NoTtl THEN ttlSeconds ELSE CacheTtl
           expiresAt == now + ttl * 1000
       IN  memory' = [memory EXCEPT
              !.cache = MapSet(@, key, [value |-> value, expiresAt |-> expiresAt]),
              !.written = MapSet(@, key, [value |-> value, at |-> now, ttl |-> ttl]),
              !.last = [op |-> "set", key |-> key, result |-> Null]]
    /\ UNCHANGED <<bookings, rooms, cache, cacheUp, now, calls, firstReturned, bus,
                   dispatch, limiter>>

\* delete(key)
delete(key) ==
    /\ memory' = [memory EXCEPT
          !.cache = MapDelete(@, {key}),
          !.written = MapDelete(@, {key}),
          !.last = [op |-> "delete", key |-> key,
                    result |-> key \in DOMAIN memory.cache]]
    /\ UNCHANGED <<bookings, rooms, cache, cacheUp, now, calls, firstReturned, bus,
                   dispatch, limiter>>

\* deletePattern(pattern)
deletePattern(pattern) ==
    /\ LET prefix == RemoveFirst(pattern, "*")
           matching == {key \in DOMAIN memory.cache : StartsWith(key, prefix)}
       IN  memory' = [memory EXCEPT
              !.cache = MapDelete(@, matching),
              !.written = MapDelete(@, matching),
              !.last = [op |-> "deletePattern", key |-> pattern,
                        result |-> Cardinality(matching)]]
    /\ UNCHANGED <<bookings, rooms, cache, cacheUp, now, calls, firstReturned, bus,
                   dispatch, limiter>>

\* clear()
clear ==
    /\ memory.cache # <<>>
    /\ memory' = [memory EXCEPT
          !.cache = [k \in {} |-> Null],
          !.written = [k \in {} |-> Null],
          !.last = [op |-> "clear", key |-> <<>>, result |-> Null]]
    /\ UNCHANGED <<bookings, rooms, cache, cacheUp, now, calls, firstReturned, bus,
                   dispatch, limiter>>

\* cleanup(), run by setInterval every minute
memoryCleanup ==
    /\ LET expired == {key \in DOMAIN memory.cache : now > memory.cache[key].expiresAt}
       IN  /\ expired # {}
           /\ memory' = [memory EXCEPT
                  !.cache = MapDelete(@, expired),
                  !.last = [op |-> "cleanup", key |-> <<>>, result |-> Null]]
    /\ UNCHANGED <<bookings, rooms, cache, cacheUp, now, calls, firstReturned, bus,
                   dispatch, limiter>>

NextMemory ==
    \/ \E key \in MemoryKeys : get(key)
    \/ \E key \in MemoryKeys, value \in MemoryValues, ttlSeconds \in TtlSeconds :
            set(key, value, ttlSeconds)
    \/ \E key \in MemoryKeys : delete(key)
    \/ \E pattern \in Patterns : deletePattern(pattern)
    \/ clear
    \/ memoryCleanup
    \/ \E t \in MemoryTimes : Tick(t)

SpecMemory == Init /\ [][NextMemory]_vars

\* app.ts has connected the bus and registered the handlers
Started == bus.isConnected /\ bus.bound = EventTypes

\* after the start of the application, one client creates a booking while
\* another reads the availability of the day, and the consumers run the
\* handlers, all steps interleaved
NextSnapshot ==
    \/ connect
    \/ \E event \in EventTypes : on(event)
    \/ /\ Started /\ bookings = <<>>
       /\ \E data \in Data({1}, {10 * HourMs, 12 * HourMs}, {NoKey}) :
             createBooking(1, data)
    \/ findRoom(1) \/ findConflicts(1) \/ create(1) \/ cacheBooking(1)
    \/ (Started /\ getRoomAvailability(2, 1))
    \/ roomAvailabilityCache(2) \/ availabilityFindRoom(2) \/ availabilityQuery(2)
    \/ roomAvailabilityStore(2) \/ Respond(2)
    \/ \E event \in EventTypes : consume(event)
    \/ \E i \in 1..MaxInFlight : handlerKeys(i)
    \/ \E i \in 1..MaxInFlight : handlerDel(i)
    \/ \E i \in 1..MaxInFlight : ack(i)

SpecSnapshot == Init /\ [][NextSnapshot]_vars

----------------------------------------------------------------------------
(* Properties *)

Overlap(a, b) == a.startTime < b.endTime /\ b.startTime < a.endTime

KeyUsed(key) == \E b \in Rows : b.idempotencyKey = key

\* p is at the end of a createBooking call
CreateDone(p) == calls[p].pc = "done" /\ calls[p].op = "create"

\* p is at the end of a createBooking call that returned an existing booking
Replayed(p) ==
    /\ CreateDone(p)
    /\ calls[p].error = ""
    /\ calls[p].booking = NoBooking

\* the step is a step of the call of p, taken from `pc`
StepFrom(p, pc) == calls[p].pc = pc /\ calls'[p] # calls[p]

\* C1: when calls run one after the other, no two bookings of one room that
\* are not CANCELLED have overlapping intervals [start, end)
C1_NoOverlap ==
    \A a, b \in Rows :
        (a.id # b.id /\ a.roomId = b.roomId
            /\ a.status # "CANCELLED" /\ b.status # "CANCELLED")
        => ~Overlap(a, b)

\* two live bookings share a room, back to back
C1_Witness ==
    \E a, b \in Rows :
        /\ a.id # b.id /\ a.roomId = b.roomId
        /\ a.status = "CONFIRMED" /\ b.status = "CONFIRMED"
        /\ a.endTime = b.startTime

\* C2: of two concurrent createBooking calls for overlapping intervals of one
\* room at most one succeeds, and the table never holds both bookings live
C2_ConcurrentCreatesExclusive ==
    /\ \A p, q \in Procs :
          (/\ p # q /\ CreateDone(p) /\ CreateDone(q)
           /\ calls[p].error = "" /\ calls[q].error = ""
           /\ calls[p].result.id # calls[q].result.id
           /\ calls[p].result.roomId = calls[q].result.roomId
           /\ Overlap(calls[p].result, calls[q].result))
          => \/ findById(calls[p].result.id).status = "CANCELLED"
             \/ findById(calls[q].result.id).status = "CANCELLED"
    /\ \A a, b \in Rows :
          (a.id # b.id /\ a.roomId = b.roomId /\ Overlap(a, b))
          => (a.status = "CANCELLED" \/ b.status = "CANCELLED")

\* C3: once createBooking has returned a booking for an idempotency key, every
\* later createBooking with that key returns the booking with the same id, and
\* the table holds exactly one booking with the key
C3_IdempotentReplay ==
    \A p \in Procs :
        LET key == calls[p].data.idempotencyKey IN
        (CreateDone(p) /\ key # NoKey /\ firstReturned[key] # Null)
        => /\ calls[p].error = ""
           /\ calls[p].result.id = firstReturned[key]
           /\ Cardinality({b \in Rows : b.idempotencyKey = key}) = 1

\* a second call with the same key and the same payload returned the booking
C3_Witness ==
    \E p \in Procs :
        /\ Replayed(p)
        /\ calls[p].data.idempotencyKey # NoKey
        /\ calls[p].result.id = firstReturned[calls[p].data.idempotencyKey]
        /\ calls[p].result.roomId = calls[p].data.roomId
        /\ calls[p].result.startTime = calls[p].data.startTime
        /\ calls[p].result.endTime = calls[p].data.endTime

\* C4: a createBooking whose key resolves to an existing booking returns that
\* booking whatever the rest of the payload is, and neither the lookup of the
\* key nor the return changes the table or the cache or emits an event
C4_ReplayChangesNothing ==
    [][\A p \in Procs :
        /\ StepFrom(p, "checkIdempotency")
              => /\ UNCHANGED <<bookings, cache>>
                 /\ calls'[p].emitted = <<>>
                 /\ calls'[p].pc = "resolveIdempotency"
        /\ (StepFrom(p, "resolveIdempotency")
                /\ existingBooking(calls[p].cachedBookingId,
                                   calls[p].data.idempotencyKey) # NoBooking)
              => /\ UNCHANGED <<bookings, cache>>
                 /\ calls'[p].pc = "done"
                 /\ calls'[p].error = ""
                 /\ calls'[p].emitted = <<>>
                 /\ calls'[p].result \in Rows
                 /\ calls'[p].result.idempotencyKey = calls[p].data.idempotencyKey
      ]_vars

\* a replay returned the booking although its payload names no room and an
\* empty interval
C4_Witness ==
    \E p \in Procs :
        /\ Replayed(p)
        /\ calls[p].result \in Rows
        /\ calls[p].data.roomId \notin rooms
        /\ calls[p].data.endTime <= calls[p].data.startTime

\* C5: a createBooking whose INSERT is rejected because another call has
\* inserted a booking with the same key returns that booking, not an error
C5_DuplicateKeyReturnsBooking ==
    [][\A p \in Procs :
        LET key == calls[p].data.idempotencyKey IN
        (StepFrom(p, "create") /\ key # NoKey /\ KeyUsed(key))
        => /\ calls'[p].pc = "done"
           /\ calls'[p].error = ""
           /\ calls'[p].result = findByIdempotencyKey(key)
      ]_vars

\* C6: at most one booking of the table carries a given idempotency key, also
\* when createBooking calls with the same key run concurrently
C6_KeyUnique ==
    \A a, b \in Rows :
        (a.id # b.id /\ a.idempotencyKey # NoKey)
        => a.idempotencyKey # b.idempotencyKey

\* two concurrent calls with one key both reached the INSERT, and the table
\* rejected the second
C6_Witness ==
    \E p \in Procs :
        /\ CreateDone(p)
        /\ calls[p].message = "duplicate key value violates unique constraint"
        /\ KeyUsed(calls[p].data.idempotencyKey)

\* C7: when the cache has no entry idempotency:<key> or does not answer, the
\* lookup of the key reads nothing from the cache, and a createBooking whose key
\* is attached to a stored booking returns that booking from the store's key
\* lookup and inserts nothing
C7_ReplayWithoutCacheEntry ==
    [][\A p \in Procs :
        LET key == calls[p].data.idempotencyKey IN
        /\ (StepFrom(p, "checkIdempotency")
                /\ (~cacheUp \/ IdempotencyCacheKey(key) \notin DOMAIN cache))
              => calls'[p].cachedBookingId = Null
        /\ (StepFrom(p, "resolveIdempotency")
                /\ calls[p].cachedBookingId = Null /\ KeyUsed(key))
              => /\ calls'[p].pc = "done"
                 /\ calls'[p].error = ""
                 /\ calls'[p].result \in Rows
                 /\ calls'[p].result.idempotencyKey = key
                 /\ bookings' = bookings
      ]_vars

\* a replay was answered from the store while Redis was down and held no
\* entry for the key
C7_Witness ==
    \E p \in Procs :
        /\ Replayed(p)
        /\ calls[p].cachedBookingId = Null
        /\ calls[p].result.idempotencyKey = calls[p].data.idempotencyKey
        /\ ~cacheUp
        /\ IdempotencyCacheKey(calls[p].data.idempotencyKey) \notin DOMAIN cache

\* C8: a key becomes used only by the INSERT of a booking that carries it and
\* never becomes unused again; a createBooking refused for its room, its
\* interval or a conflict leaves its key unused and without a cache entry, and
\* a call with an unused key is not short-circuited and its INSERT succeeds
C8_KeyConsumedAtInsert ==
    /\ [](\A p \in Procs :
            LET key == calls[p].data.idempotencyKey IN
            (/\ CreateDone(p) /\ key # NoKey
             /\ calls[p].error \in {"RoomNotFoundError", "InvalidBookingTimeError",
                                    "RoomUnavailableError"})
            => /\ ~KeyUsed(key)
               /\ IdempotencyCacheKey(key) \notin DOMAIN cache)
    /\ [][\A key \in IdempotencyKeys :
            /\ KeyUsed(key) => KeyUsed(key)'
            /\ (~KeyUsed(key) /\ KeyUsed(key)')
                  => \E p \in Procs :
                        /\ StepFrom(p, "create")
                        /\ calls[p].data.idempotencyKey = key
                        /\ Len(bookings') = Len(bookings) + 1
                        /\ calls'[p].booking = bookings'[Len(bookings')]
                        /\ calls'[p].booking.idempotencyKey = key
         ]_vars
    /\ [][\A p \in Procs :
            LET key == calls[p].data.idempotencyKey IN
            /\ (StepFrom(p, "resolveIdempotency") /\ ~KeyUsed(key))
                  => calls'[p].pc = "findRoom"
            /\ (StepFrom(p, "create") /\ key # NoKey /\ ~KeyUsed(key))
                  => (KeyUsed(key)' /\ calls'[p].pc = "cacheIdempotency")
         ]_vars

\* a call with a key was refused for a conflict, and the key is still unused
C8_Witness ==
    \E p \in Procs :
        /\ CreateDone(p)
        /\ calls[p].error = "RoomUnavailableError"
        /\ calls[p].data.idempotencyKey # NoKey
        /\ ~KeyUsed(calls[p].data.idempotencyKey)

\* the interval is one that C9 says createBooking refuses
IntervalRefused(startTime, endTime) ==
    \/ startTime < now
    \/ endTime <= startTime
    \/ endTime - startTime > 8 * 60 * 60 * 1000
    \/ endTime - startTime < 15 * 60 * 1000

\* C9: for an existing room createBooking throws InvalidBookingTimeError,
\* without inserting, caching or emitting, exactly when start < now, end <= start,
\* the duration is above 8 hours or below 15 minutes; otherwise it goes on to
\* the conflict check
C9_InvalidInterval ==
    /\ [][\A p \in Procs :
            LET data == calls[p].data IN
            (StepFrom(p, "findRoom") /\ data.roomId \in rooms)
            => IF IntervalRefused(data.startTime, data.endTime)
               THEN /\ calls'[p].pc = "done"
                    /\ calls'[p].error = "InvalidBookingTimeError"
                    /\ calls'[p].emitted = <<>>
                    /\ UNCHANGED <<bookings, cache>>
               ELSE /\ calls'[p].pc = "findConflicts"
                    /\ calls'[p].error = ""
         ]_vars
    /\ [](\A p \in Procs :
            (CreateDone(p) /\ calls[p].error = "InvalidBookingTimeError")
            => (calls[p].booking = NoBooking /\ calls[p].emitted = <<>>))

\* a booking of exactly 8 hours that starts now is in the table, and a request
\* for one millisecond more was refused
C9_Witness ==
    /\ \E b \in Rows : b.endTime - b.startTime = MaxDurationMs
    /\ \E p \in Procs :
          /\ CreateDone(p)
          /\ calls[p].error = "InvalidBookingTimeError"
          /\ calls[p].data.endTime - calls[p].data.startTime = MaxDurationMs + 1

\* the first check of createBooking that the request fails, in the order C10
\* gives, as <<error, message>>; <<"", "">> when it passes them all
FirstFailure(data) ==
    IF data.roomId \notin rooms
    THEN <<"RoomNotFoundError", "Room not found">>
    ELSE IF data.startTime < now
    THEN <<"InvalidBookingTimeError", "Start time cannot be in the past">>
    ELSE IF data.endTime <= data.startTime
    THEN <<"InvalidBookingTimeError", "End time must be after start time">>
    ELSE IF data.endTime - data.startTime > 8 * 60 * 60 * 1000
    THEN <<"InvalidBookingTimeError", "Booking duration cannot exceed 8 hours">>
    ELSE IF data.endTime - data.startTime < 15 * 60 * 1000
    THEN <<"InvalidBookingTimeError", "Booking duration must be at least 15 minutes">>
    ELSE <<"", "">>

\* C10: createBooking reports the first failing check only, in the order room
\* not found, past start, end not after start, above 8 hours, below 15 minutes,
\* conflict; a call refused for its room or interval emits no event
C10_FirstFailureReported ==
    /\ [][\A p \in Procs :
            /\ StepFrom(p, "findRoom")
                  => /\ <<calls'[p].error, calls'[p].message>> = FirstFailure(calls[p].data)
                     /\ calls'[p].pc =
                           IF FirstFailure(calls[p].data) = <<"", "">>
                           THEN "findConflicts" ELSE "done"
            /\ StepFrom(p, "findConflicts")
                  => (calls'[p].error = "RoomUnavailableError"
                        <=> \E b \in Rows :
                               /\ b.roomId = calls[p].data.roomId
                               /\ b.status # "CANCELLED"
                               /\ Overlap(b, calls[p].data))
         ]_vars
    /\ [](\A p \in Procs :
            (CreateDone(p)
                /\ calls[p].error \in {"RoomNotFoundError", "InvalidBookingTimeError"})
            => calls[p].emitted = <<>>)

\* a request for too long an interval that overlaps a live booking of the room
\* was refused for the interval, with no event
C10_Witness ==
    \E p \in Procs :
        /\ CreateDone(p)
        /\ calls[p].message = "Booking duration cannot exceed 8 hours"
        /\ calls[p].emitted = <<>>
        /\ \E b \in Rows :
              /\ b.roomId = calls[p].data.roomId
              /\ b.status # "CANCELLED"
              /\ Overlap(b, calls[p].data)

\* the bookings the conflict check of C11 and C12 speaks of: live bookings of
\* the room whose interval overlaps [startTime, endTime)
LiveOverlapping(roomId, startTime, endTime) ==
    {b \in Rows :
        /\ b.roomId = roomId
        /\ b.status \in {"PENDING", "CONFIRMED"}
        /\ ~(b.endTime <= startTime \/ endTime <= b.startTime)}

\* C11: when the conflict query returns a booking, createBooking emits exactly
\* one room.unavailable event with the room, the requested interval and the id
\* of a conflicting booking the store returned, throws RoomUnavailableError, and
\* inserts nothing, caches nothing and emits no booking.created
C11_ConflictRefused ==
    /\ [][\A p \in Procs :
            LET data == calls[p].data
                conflicts == LiveOverlapping(data.roomId, data.startTime, data.endTime)
            IN  (StepFrom(p, "findConflicts") /\ conflicts # {})
                => /\ calls'[p].pc = "done"
                   /\ calls'[p].error = "RoomUnavailableError"
                   /\ calls'[p].booking = NoBooking
                   /\ Len(calls'[p].emitted) = 1
                   /\ calls'[p].emitted[1].type = "room.unavailable"
                   /\ calls'[p].emitted[1].roomId = data.roomId
                   /\ calls'[p].emitted[1].startTime = data.startTime
                   /\ calls'[p].emitted[1].endTime = data.endTime
                   /\ calls'[p].emitted[1].conflictingBookingId
                          \in {b.id : b \in conflicts}
                   /\ UNCHANGED <<bookings, cache>>
         ]_vars
    /\ [](\A p \in Procs :
            (CreateDone(p) /\ calls[p].error = "RoomUnavailableError")
            => /\ Len(calls[p].emitted) = 1
               /\ calls[p].emitted[1].type = "room.unavailable"
               /\ calls[p].result = NoBooking)

\* a request that overlaps two live bookings was refused, and the event names
\* the second of them
C11_Witness ==
    \E p \in Procs :
        /\ CreateDone(p)
        /\ calls[p].error = "RoomUnavailableError"
        /\ Cardinality(LiveOverlapping(calls[p].data.roomId, calls[p].data.startTime,
                                       calls[p].data.endTime)) = 2
        /\ calls[p].emitted[1].conflictingBookingId = 2

\* C12: findConflictingBookings(room, start, end, excludeId) returns exactly the
\* bookings of the room that are not CANCELLED, are not excludeId, and overlap
\* [start, end); a booking that ends at start or starts at end, and a booking
\* of another room, is never returned
C12_ConflictQuery ==
    \A roomId \in SeedRooms \cup {MissingRoom}, startTime, endTime \in CoarseTimePoints,
       excludeBookingId \in {Null} \cup BookingIds :
        LET found == findConflictingBookings(roomId, startTime, endTime,
                                             excludeBookingId)
        IN  /\ found = {b \in LiveOverlapping(roomId, startTime, endTime) :
                            b.id # excludeBookingId}
            /\ \A b \in Rows :
                  (b.endTime = startTime \/ b.startTime = endTime \/ b.roomId # roomId)
                  => b \notin found

\* two live bookings of one room are back to back: the query for the interval
\* of the first returns the first alone, and nothing when the first is excluded
C12_Witness ==
    \E a, b \in Rows :
        /\ a.roomId = b.roomId /\ a.endTime = b.startTime
        /\ a.status = "CONFIRMED" /\ b.status = "CONFIRMED"
        /\ findConflictingBookings(a.roomId, a.startTime, a.endTime, Null) = {a}
        /\ findConflictingBookings(a.roomId, a.startTime, a.endTime, a.id) = {}
        /\ findConflictingBookings(a.roomId, a.startTime, b.endTime, a.id) = {b}

\* C13: a createBooking whose interval overlaps only CANCELLED bookings of the
\* room passes the conflict check, inserts its booking and returns it
C13_CancelledDoNotBlock ==
    [][\A p \in Procs :
        LET data == calls[p].data
            key == data.idempotencyKey
        IN  /\ (StepFrom(p, "findConflicts")
                    /\ \A b \in Rows :
                          (b.roomId = data.roomId /\ Overlap(b, data))
                          => b.status = "CANCELLED")
                  => (calls'[p].pc = "create" /\ calls'[p].error = "")
            /\ (StepFrom(p, "create") /\ (key = NoKey \/ ~KeyUsed(key)))
                  => /\ Len(bookings') = Len(bookings) + 1
                     /\ bookings'[Len(bookings')].status = "CONFIRMED"
                     /\ bookings'[Len(bookings')].roomId = data.roomId
                     /\ bookings'[Len(bookings')].startTime = data.startTime
                     /\ bookings'[Len(bookings')].endTime = data.endTime
                     /\ calls'[p].booking = bookings'[Len(bookings')]
                     /\ calls'[p].error = ""
            /\ StepFrom(p, "cacheBooking")
                  => /\ calls'[p].pc = "done"
                     /\ calls'[p].error = ""
                     /\ calls'[p].result = calls[p].booking
      ]_vars

\* a booking was cancelled, and a createBooking for the same room and the same
\* interval then returned a new booking
C13_Witness ==
    \E p \in Procs, c \in Rows :
        /\ CreateDone(p)
        /\ calls[p].error = ""
        /\ calls[p].result \in Rows
        /\ calls[p].result.status = "CONFIRMED"
        /\ c.status = "CANCELLED"
        /\ c.id < calls[p].result.id
        /\ c.roomId = calls[p].result.roomId
        /\ c.startTime = calls[p].result.startTime
        /\ c.endTime = calls[p].result.endTime

\* C14: a successful createBooking inserts the booking as CONFIRMED, then
\* writes idempotency:<key> -> booking id with a TTL of 24 hours when a key was
\* given, then writes booking:<id> with the standard TTL of 300 seconds, then
\* emits one booking.created event with the booking and returns it (a cache
\* that is down takes no write); booking.created only names stored bookings
C14_CreateOrder ==
    /\ [][\A p \in Procs :
            LET key == calls[p].data.idempotencyKey
                booking == calls[p].booking
            IN  /\ (StepFrom(p, "create") /\ calls'[p].error = "")
                      => /\ bookings' = Append(bookings, calls'[p].booking)
                         /\ calls'[p].booking.status = "CONFIRMED"
                         /\ calls'[p].booking.id \notin {b.id : b \in Rows}
                         /\ cache' = cache
                         /\ calls'[p].emitted = <<>>
                         /\ calls'[p].pc = IF key # NoKey THEN "cacheIdempotency"
                                           ELSE "cacheBooking"
                /\ StepFrom(p, "cacheIdempotency")
                      => /\ booking \in Rows /\ bookings' = bookings
                         /\ IF cacheUp
                            THEN /\ DOMAIN cache' = DOMAIN cache \cup {<<"idempotency", key>>}
                                 /\ cache'[<<"idempotency", key>>] =
                                        [value |-> booking.id, ttl |-> 24 * 60 * 60]
                                 /\ \A k \in DOMAIN cache \ {<<"idempotency", key>>} :
                                        cache'[k] = cache[k]
                            ELSE cache' = cache
                         /\ <<"booking", booking.id>> \notin DOMAIN cache'
                         /\ calls'[p].emitted = <<>>
                         /\ calls'[p].pc = "cacheBooking"
                /\ StepFrom(p, "cacheBooking")
                      => /\ booking \in Rows /\ bookings' = bookings
                         /\ IF cacheUp
                            THEN /\ DOMAIN cache' = DOMAIN cache \cup {<<"booking", booking.id>>}
                                 /\ cache'[<<"booking", booking.id>>].ttl = 300
                                 /\ cache'[<<"booking", booking.id>>].value.id = booking.id
                                 /\ cache'[<<"booking", booking.id>>].value.status = "CONFIRMED"
                                 /\ \A k \in DOMAIN cache \ {<<"booking", booking.id>>} :
                                        cache'[k] = cache[k]
                            ELSE cache' = cache
                         /\ calls'[p].emitted =
                                <<[type |-> "booking.created", booking |-> booking,
                                   reason |-> NoReason]>>
                         /\ calls'[p].pc = "done"
                         /\ calls'[p].error = ""
                         /\ calls'[p].result = booking
         ]_vars
    /\ [](\A p \in Procs :
            \A i \in 1..Len(calls[p].emitted) :
                calls[p].emitted[i].type = "booking.created"
                => calls[p].emitted[i].booking \in Rows)

\* a createBooking with a key returned its booking: the table holds it, both
\* cache entries are written with their TTLs and one event was emitted
C14_Witness ==
    \E p \in Procs :
        LET key == calls[p].data.idempotencyKey
            id == calls[p].result.id
        IN  /\ CreateDone(p) /\ calls[p].error = "" /\ key # NoKey
            /\ calls[p].booking # NoBooking
            /\ calls[p].result \in Rows
            /\ <<"idempotency", key>> \in DOMAIN cache
            /\ cache[<<"idempotency", key>>] = [value |-> id, ttl |-> 86400]
            /\ <<"booking", id>> \in DOMAIN cache
            /\ cache[<<"booking", id>>].ttl = 300
            /\ Len(calls[p].emitted) = 1
            /\ calls[p].emitted[1].type = "booking.created"

\* p is at the end of a getBooking call
GetDone(p) == calls[p].pc = "done" /\ calls[p].op = "get"

\* C15: getBooking(id) returns the entry booking:<id> when the cache has it,
\* without reading the table; on a miss it returns the row of the table and
\* writes it to booking:<id> with the standard TTL of 300 seconds; when the
\* table has no such row it throws BookingNotFoundError and writes nothing
C15_GetBookingCacheAside ==
    [][\A p \in Procs :
        LET id == calls[p].id
            key == <<"booking", id>>
        IN  /\ StepFrom(p, "getBookingCache")
                  => /\ UNCHANGED <<bookings, cache>>
                     /\ IF cacheUp /\ key \in DOMAIN cache
                        THEN /\ calls'[p].pc = "done"
                             /\ calls'[p].error = ""
                             /\ calls'[p].result = cache[key].value
                        ELSE calls'[p].pc = "getBookingFind"
            /\ StepFrom(p, "getBookingFind")
                  => /\ UNCHANGED <<bookings, cache>>
                     /\ IF \E b \in Rows : b.id = id
                        THEN /\ calls'[p].pc = "getBookingStore"
                             /\ calls'[p].booking \in Rows
                             /\ calls'[p].booking.id = id
                        ELSE /\ calls'[p].pc = "done"
                             /\ calls'[p].error = "BookingNotFoundError"
            /\ StepFrom(p, "getBookingStore")
                  => /\ bookings' = bookings
                     /\ calls'[p].pc = "done"
                     /\ calls'[p].error = ""
                     /\ calls'[p].result = calls[p].booking
                     /\ IF cacheUp
                        THEN /\ DOMAIN cache' = DOMAIN cache \cup {key}
                             /\ cache'[key].ttl = 300
                             /\ cache'[key].value =
                                    [calls[p].booking EXCEPT !.dateFormat = "string"]
                             /\ \A k \in DOMAIN cache \ {key} : cache'[k] = cache[k]
                        ELSE cache' = cache
      ]_vars

\* a getBooking was answered from the cache: the value has the ISO strings of
\* the serialized entry where the row has dates
C15_Witness ==
    \E p \in Procs :
        /\ GetDone(p) /\ calls[p].error = ""
        /\ calls[p].booking = NoBooking
        /\ calls[p].result.id = calls[p].id
        /\ calls[p].result.dateFormat = "string"
        /\ calls[p].result = cache[<<"booking", calls[p].id>>].value

\* C16: while Redis answers and holds booking:<id>, getBooking(id) returns the
\* entry even when the row of the table has been changed by another process;
\* once the entry is gone, getBooking reads the row and returns what it read
C16_StaleUntilExpiry ==
    [][\A p \in Procs :
        LET id == calls[p].id
            key == <<"booking", id>>
        IN  /\ (StepFrom(p, "getBookingCache") /\ cacheUp /\ key \in DOMAIN cache
                    /\ id \in 1..Len(bookings)
                    /\ cache[key].value.status # bookings[id].status)
                  => /\ calls'[p].pc = "done"
                     /\ calls'[p].result = cache[key].value
                     /\ calls'[p].result.status # bookings[id].status
                     /\ UNCHANGED <<bookings, cache>>
            /\ (StepFrom(p, "getBookingCache") /\ key \notin DOMAIN cache
                    /\ id \in 1..Len(bookings))
                  => calls'[p].pc = "getBookingFind"
            /\ (StepFrom(p, "getBookingFind") /\ id \in 1..Len(bookings))
                  => /\ calls'[p].booking = bookings[id]
                     /\ calls'[p].pc = "getBookingStore"
            /\ StepFrom(p, "getBookingStore")
                  => /\ calls'[p].result = calls[p].booking
                     /\ calls'[p].result.dateFormat = "Date"
      ]_vars

\* getBooking returned a CONFIRMED booking from the cache after another
\* process had set the row to PENDING
C16_Witness ==
    \E p \in Procs :
        /\ GetDone(p) /\ calls[p].error = ""
        /\ calls[p].result.status = "CONFIRMED"
        /\ calls[p].result.dateFormat = "string"
        /\ findById(calls[p].id).status = "PENDING"
        /\ <<"booking", calls[p].id>> \in DOMAIN cache

\* p is at the end of a cancelBooking call
CancelDone(p) == calls[p].pc = "done" /\ calls[p].op = "cancel"

\* C17: cancelBooking throws BookingNotFoundError for an id of no booking and
\* BookingAlreadyCancelledError for a CANCELLED booking, changing neither the
\* table nor the cache and emitting nothing; on a CONFIRMED booking it succeeds
\* and leaves the booking CANCELLED, so that every later cancelBooking fails
C17_CancelOnce ==
    /\ [][\A p \in Procs :
            LET id == calls[p].id IN
            /\ StepFrom(p, "cancelFind")
                  => /\ UNCHANGED <<bookings, cache>>
                     /\ calls'[p].emitted = <<>>
                     /\ IF id \notin 1..Len(bookings)
                        THEN /\ calls'[p].pc = "done"
                             /\ calls'[p].error = "BookingNotFoundError"
                        ELSE IF bookings[id].status = "CANCELLED"
                        THEN /\ calls'[p].pc = "done"
                             /\ calls'[p].error = "BookingAlreadyCancelledError"
                        ELSE /\ calls'[p].pc = "cancelUpdate"
                             /\ calls'[p].error = ""
            /\ StepFrom(p, "cancelUpdate")
                  => (calls'[p].pc = "cancelCache" /\ calls'[p].error = "")
            /\ StepFrom(p, "cancelCache")
                  => (calls'[p].pc = "done" /\ calls'[p].error = "")
         ]_vars
    /\ [](\A p \in Procs :
            CancelDone(p)
            => IF calls[p].error = ""
               THEN /\ bookings[calls[p].id].status = "CANCELLED"
                    /\ calls[p].result.status = "CANCELLED"
               ELSE /\ calls[p].emitted = <<>>
                    /\ calls[p].result = NoBooking)

\* a second cancelBooking of a booking that an earlier call cancelled failed
C17_Witness ==
    \E p \in Procs :
        /\ CancelDone(p)
        /\ calls[p].error = "BookingAlreadyCancelledError"
        /\ findById(calls[p].id).status = "CANCELLED"
        /\ findById(calls[p].id).cancelledAt # NoTime

\* C18: a successful cancelBooking(id, reason) first sets the row to CANCELLED
\* with cancelled_at at the current time, then removes the entry booking:<id>
\* from the cache, then emits one booking.cancelled event with the updated
\* booking and the reason, and returns the updated booking
C18_CancelOrder ==
    [][\A p \in Procs :
        LET id == calls[p].id
            key == <<"booking", id>>
        IN  /\ (StepFrom(p, "cancelUpdate") /\ id \in 1..Len(bookings))
                  => /\ bookings'[id].status = "CANCELLED"
                     /\ bookings'[id].cancelledAt = now
                     /\ calls'[p].booking = bookings'[id]
                     /\ calls'[p].pc = "cancelCache"
                     /\ calls'[p].emitted = <<>>
                     /\ cache' = cache
            /\ StepFrom(p, "cancelCache")
                  => /\ bookings' = bookings
                     /\ IF cacheUp
                        THEN /\ DOMAIN cache' = DOMAIN cache \ {key}
                             /\ \A k \in DOMAIN cache' : cache'[k] = cache[k]
                        ELSE cache' = cache
                     /\ calls'[p].emitted =
                            <<[type |-> "booking.cancelled",
                               booking |-> calls[p].booking,
                               reason |-> calls[p].reason]>>
                     /\ calls'[p].pc = "done"
                     /\ calls'[p].error = ""
                     /\ calls'[p].result = calls[p].booking
                     /\ calls'[p].result.status = "CANCELLED"
      ]_vars

\* a booking created at time 0 was cancelled later with a reason: the row
\* carries the later time, the cache entry written at creation is gone and the
\* event carries the reason
C18_Witness ==
    \E p \in Procs :
        /\ CancelDone(p) /\ calls[p].error = ""
        /\ calls[p].reason = "meeting moved"
        /\ calls[p].result = findById(calls[p].id)
        /\ calls[p].result.cancelledAt = MinDurationMs - 1
        /\ <<"booking", calls[p].id>> \notin DOMAIN cache
        /\ Len(calls[p].emitted) = 1
        /\ calls[p].emitted[1].reason = "meeting moved"
        /\ calls[p].emitted[1].booking.status = "CANCELLED"

\* C19: every row is inserted as CONFIRMED, the status of a row only ever
\* changes from CONFIRMED to CANCELLED, and no row leaves the table, under any
\* interleaving of createBooking and cancelBooking calls
C19_StatusLifecycle ==
    [][/\ Len(bookings') >= Len(bookings)
       /\ \A i \in 1..Len(bookings) :
             /\ bookings'[i].id = bookings[i].id
             /\ \/ bookings'[i].status = bookings[i].status
                \/ /\ bookings[i].status = "CONFIRMED"
                   /\ bookings'[i].status = "CANCELLED"
       /\ \A i \in (Len(bookings) + 1)..Len(bookings') :
             bookings'[i].status = "CONFIRMED"
      ]_vars

\* the table holds a booking that was cancelled and one created after it that
\* is CONFIRMED
C19_Witness ==
    \E a, b \in Rows :
        /\ a.id < b.id
        /\ a.status = "CANCELLED" /\ a.cancelledAt # NoTime
        /\ b.status = "CONFIRMED"

\* p is at the end of a getAvailability call that returned a snapshot
AvailabilityDone(p) ==
    /\ calls[p].pc = "done" /\ calls[p].op = "availability"
    /\ calls[p].availability # NoAvailability

\* where the cursor of C20 stands before the i-th booked interval: at 08:00 or
\* at the latest end of the intervals before it
CursorBefore(bookedSlots, i) ==
    LET ends == {8 * HourMs} \cup {bookedSlots[j].endTime : j \in 1..(i - 1)}
    IN  CHOOSE t \in ends : \A u \in ends : u <= t

\* the free slots of C20: the non-empty gaps between the cursor and the next
\* booked interval, then the gap between the cursor and 18:00
FreeSlots(bookedSlots) ==
    LET n == Len(bookedSlots)
        gaps == [i \in 1..(n + 1) |->
                    [startTime |-> CursorBefore(bookedSlots, i),
                     endTime |-> IF i <= n THEN bookedSlots[i].startTime
                                 ELSE 18 * HourMs]]
        NonEmpty(slot) == slot.startTime < slot.endTime
    IN  SelectSeq(gaps, NonEmpty)

\* C20: the booked slots of getAvailability are the live bookings of the room
\* that start on the day, sorted by start, and its free slots are those of a
\* cursor walking from 08:00 over them to 18:00; no booking gives the one slot
\* [08:00, 18:00), a single booking 10:00-14:00 gives [08:00, 10:00) and
\* [14:00, 18:00)
C20_AvailableSlots ==
    /\ [](\A p \in Procs :
            AvailabilityDone(p)
            => LET bookedSlots == calls[p].availability.bookedSlots
                   availableSlots == calls[p].availability.availableSlots
               IN  /\ availableSlots = FreeSlots(bookedSlots)
                   /\ \A i, j \in 1..Len(bookedSlots) :
                         i < j => bookedSlots[i].startTime <= bookedSlots[j].startTime
                   /\ bookedSlots = <<>>
                         => availableSlots =
                               <<[startTime |-> 8 * HourMs, endTime |-> 18 * HourMs]>>
                   /\ bookedSlots =
                            <<[startTime |-> 10 * HourMs, endTime |-> 14 * HourMs]>>
                         => availableSlots =
                               <<[startTime |-> 8 * HourMs, endTime |-> 10 * HourMs],
                                 [startTime |-> 14 * HourMs, endTime |-> 18 * HourMs]>>)
    /\ [][\A p \in Procs :
            StepFrom(p, "availabilityQuery")
            => LET bookedSlots == calls'[p].availability.bookedSlots
                   live == {b \in Rows : b.roomId = calls[p].data.roomId
                                            /\ b.status # "CANCELLED"}
               IN  /\ calls'[p].pc = "done"
                   /\ Len(bookedSlots) = Cardinality(live)
                   /\ {bookedSlots[i] : i \in 1..Len(bookedSlots)} =
                         {[startTime |-> b.startTime, endTime |-> b.endTime] : b \in live}
         ]_vars

\* the day has a booking 07:00-14:00 and, inside it, a booking 10:00-12:00
\* admitted by a concurrent request: the only free slot is [14:00, 18:00)
C20_Witness ==
    \E p \in Procs :
        /\ AvailabilityDone(p)
        /\ calls[p].availability.bookedSlots =
              <<[startTime |-> 7 * HourMs, endTime |-> 14 * HourMs],
                [startTime |-> 10 * HourMs, endTime |-> 12 * HourMs]>>
        /\ calls[p].availability.availableSlots =
              <<[startTime |-> 14 * HourMs, endTime |-> 18 * HourMs]>>

\* the part of a slot that lies in the working window [08:00, 18:00)
Clipped(slot) ==
    [startTime |-> IF slot.startTime > 8 * HourMs THEN slot.startTime ELSE 8 * HourMs,
     endTime |-> IF slot.endTime < 18 * HourMs THEN slot.endTime ELSE 18 * HourMs]

\* the clipped slots of a list that are not empty
ClippedSlots(slots) ==
    LET NonEmpty(slot) == slot.startTime < slot.endTime
    IN  SelectSeq([i \in 1..Len(slots) |-> Clipped(slots[i])], NonEmpty)

RECURSIVE TotalLength(_)
TotalLength(slots) ==
    IF slots = <<>> THEN 0
    ELSE (Head(slots).endTime - Head(slots).startTime) + TotalLength(Tail(slots))

PairwiseDisjoint(slots) ==
    \A i, j \in 1..Len(slots) :
        i # j => (slots[i].endTime <= slots[j].startTime
                    \/ slots[j].endTime <= slots[i].startTime)

\* C21: when the booked slots of a snapshot do not overlap one another, the
\* booked and the available slots, clipped to [08:00, 18:00), are pairwise
\* disjoint and together cover the whole window
C21_WindowPartition ==
    \A p \in Procs :
        (AvailabilityDone(p) /\ PairwiseDisjoint(calls[p].availability.bookedSlots))
        => LET parts == ClippedSlots(calls[p].availability.bookedSlots)
                           \o ClippedSlots(calls[p].availability.availableSlots)
           IN  /\ PairwiseDisjoint(parts)
               /\ TotalLength(parts) = 10 * HourMs

\* the day has a booking 07:00-10:00 across the start of the window and a
\* booking 19:00-20:00 after its end, and the snapshot has a free slot that
\* runs past 18:00
C21_Witness ==
    \E p \in Procs :
        /\ AvailabilityDone(p)
        /\ calls[p].availability.bookedSlots =
              <<[startTime |-> 7 * HourMs, endTime |-> 10 * HourMs],
                [startTime |-> 19 * HourMs, endTime |-> 20 * HourMs]>>
        /\ calls[p].availability.availableSlots =
              <<[startTime |-> 10 * HourMs, endTime |-> 19 * HourMs]>>

\* p is at the end of a getRoomAvailability call
RoomAvailabilityDone(p) == calls[p].pc = "done" /\ calls[p].op = "roomAvailability"

\* C22: getRoomAvailability(room, date) returns the entry
\* availability:<room>:<date> when the cache has it, without reading the
\* tables; on a miss it throws RoomNotFoundError and writes nothing when the
\* room does not exist, and else computes the snapshot from the table, writes
\* it to the entry with the standard TTL of 300 seconds and returns it
C22_RoomAvailabilityCacheAside ==
    [][\A p \in Procs :
        LET roomId == calls[p].data.roomId
            key == <<"availability", roomId, 0>>
        IN  calls[p].op = "roomAvailability"
            => /\ StepFrom(p, "roomAvailabilityCache")
                     => /\ UNCHANGED <<bookings, cache>>
                        /\ IF cacheUp /\ key \in DOMAIN cache
                           THEN /\ calls'[p].pc = "done"
                                /\ calls'[p].error = ""
                                /\ calls'[p].availability = cache[key].value
                           ELSE calls'[p].pc = "availabilityFindRoom"
               /\ StepFrom(p, "availabilityFindRoom")
                     => /\ UNCHANGED <<bookings, cache>>
                        /\ IF roomId \in rooms
                           THEN calls'[p].pc = "availabilityQuery"
                           ELSE /\ calls'[p].pc = "done"
                                /\ calls'[p].error = "RoomNotFoundError"
                                /\ calls'[p].availability = NoAvailability
               /\ StepFrom(p, "availabilityQuery")
                     => /\ UNCHANGED <<bookings, cache>>
                        /\ calls'[p].pc = "roomAvailabilityStore"
                        /\ calls'[p].availability.roomId = roomId
                        /\ calls'[p].availability.dateFormat = "Date"
                        /\ calls'[p].availability.availableSlots =
                              FreeSlots(calls'[p].availability.bookedSlots)
                        /\ {calls'[p].availability.bookedSlots[i] :
                                i \in 1..Len(calls'[p].availability.bookedSlots)} =
                              {[startTime |-> b.startTime, endTime |-> b.endTime] :
                                  b \in {r \in Rows : r.roomId = roomId
                                                        /\ r.status # "CANCELLED"}}
               /\ StepFrom(p, "roomAvailabilityStore")
                     => /\ bookings' = bookings
                        /\ calls'[p].pc = "done"
                        /\ calls'[p].error = ""
                        /\ calls'[p].availability = calls[p].availability
                        /\ IF cacheUp
                           THEN /\ DOMAIN cache' = DOMAIN cache \cup {key}
                                /\ cache'[key].ttl = 300
                                /\ cache'[key].value =
                                       [calls[p].availability EXCEPT
                                            !.dateFormat = "string"]
                                /\ \A k \in DOMAIN cache \ {key} : cache'[k] = cache[k]
                           ELSE cache' = cache
      ]_vars

\* a getRoomAvailability was answered from the cache with a snapshot that has
\* a booked slot
C22_Witness ==
    \E p \in Procs :
        /\ RoomAvailabilityDone(p) /\ calls[p].error = ""
        /\ calls[p].availability.dateFormat = "string"
        /\ calls[p].availability.bookedSlots # <<>>
        /\ calls[p].availability = cache[<<"availability", calls[p].data.roomId, 0>>].value

\* C24: createBooking and cancelBooking return their booking, with the row
\* written, whatever the event bus does with the event: emit returns false
\* when the bus is not connected, false or true when it is (false when
\* publishing threw), true with no queue changed when no handler is
\* subscribed, and the call never ends with an error because of it
C24_PublishNeverFails ==
    [][\A p \in Procs :
        (StepFrom(p, "cacheBooking") \/ StepFrom(p, "cancelCache"))
        => LET type == IF calls[p].op = "create" THEN "booking.created"
                       ELSE "booking.cancelled"
           IN  /\ calls'[p].pc = "done"
               /\ calls'[p].error = ""
               /\ calls'[p].result = calls[p].booking
               /\ calls'[p].result \in Rows
               /\ bookings' = bookings
               /\ Len(calls'[p].published) = 1
               /\ calls'[p].published[1] \in BOOLEAN
               /\ ~bus.isConnected => ~calls'[p].published[1]
               /\ (~calls'[p].published[1] \/ type \notin bus.bound) => bus' = bus
               /\ (calls'[p].published[1] /\ type \in bus.bound)
                     => Len(bus'.queue[type]) = Len(bus.queue[type]) + 1
      ]_vars

\* a createBooking returned its booking after an emit that returned true
\* while no handler was subscribed
C24_Witness ==
    \E p \in Procs :
        /\ CreateDone(p) /\ calls[p].error = ""
        /\ calls[p].result \in Rows
        /\ calls[p].published = <<TRUE>>
        /\ bus.handlers = {}

\* callback i takes a step of its handler
HandlerStep(i) ==
    /\ i \in 1..Len(bus.inflight)
    /\ bus.inflight[i].pc \in {"delete", "keys", "del"}
    /\ Len(bus'.inflight) = Len(bus.inflight)
    /\ bus'.inflight[i].pc # bus.inflight[i].pc

\* the cache keys the handler of a message deletes
Targets(content) ==
    {<<"availability", content.booking.roomId, DateKey(content.booking.startTime)>>}
        \cup (IF content.type = "booking.cancelled"
              THEN {<<"booking", content.booking.id>>} ELSE {})

\* C25: a handler only removes entries, and only those of its event (the
\* availability entry of the booking's room and day, and for booking.cancelled
\* the entry of the booking); what it looked for is gone when it has run; so a
\* delivery that finds them gone already, as a second delivery does, changes
\* nothing. Whatever Redis does, the handler goes on to its end and the
\* message is acknowledged: no error reaches the consumer
C25_HandlersIdempotent ==
    [][\A i \in 1..MaxInFlight :
        HandlerStep(i)
        => LET content == bus.inflight[i].msg.content
               pc == bus.inflight[i].pc
               pcAfter == bus'.inflight[i].pc
           IN  /\ DOMAIN cache' \subseteq DOMAIN cache
               /\ \A k \in DOMAIN cache' : cache'[k] = cache[k]
               /\ DOMAIN cache \ DOMAIN cache' \subseteq Targets(content)
               /\ Targets(content) \cap DOMAIN cache = {} => cache' = cache
               /\ (cacheUp /\ pc = "delete")
                     => <<"booking", content.booking.id>> \notin DOMAIN cache'
               /\ (cacheUp /\ pc = "keys" /\ pcAfter = "ack")
                     => <<"availability", content.booking.roomId,
                          DateKey(content.booking.startTime)>> \notin DOMAIN cache'
               /\ (cacheUp /\ pc = "del")
                     => bus.inflight[i].keys \cap DOMAIN cache' = {}
               /\ pcAfter = IF pc = "delete" THEN "keys"
                            ELSE IF pc = "del" THEN "ack"
                            ELSE IF cacheUp /\ bus'.inflight[i].keys # {}
                                 THEN "del" ELSE "ack"
               /\ UNCHANGED <<bookings, calls>>
      ]_vars

\* a message is handled for the second time, by a callback that finds its
\* entries deleted, while the callback of the first delivery, which deleted
\* them, has not returned yet
C25_Witness ==
    \E i, j \in 1..Len(bus.inflight) :
        /\ i # j
        /\ bus.inflight[i].requeued /\ bus.inflight[i].pc = "ack"
        /\ bus.inflight[i].keys # {}
        /\ bus.inflight[j].msg.redelivered
        /\ bus.inflight[j].msg.content = bus.inflight[i].msg.content
        /\ bus.inflight[j].pc = "ack" /\ bus.inflight[j].keys = {}
        /\ cacheUp

\* a message about a booking of the room and day is in a queue of the broker,
\* or in the hands of a handler that has not made its last cache call
InvalidationPending(booking) ==
    LET same(content) ==
            /\ content.booking.roomId = booking.roomId
            /\ DateKey(content.booking.startTime) = DateKey(booking.startTime)
    IN  \/ \E e \in EventTypes : \E i \in 1..Len(bus.queue[e]) :
              same(bus.queue[e][i].content)
        \/ \E i \in 1..Len(bus.inflight) :
              bus.inflight[i].pc # "ack" /\ same(bus.inflight[i].msg.content)

\* the cached snapshot of the booking's room and day was computed before the
\* booking's row got its present status
SnapshotOutdated(booking) ==
    LET key == <<"availability", booking.roomId, DateKey(booking.startTime)>>
        slots == cache[key].value.bookedSlots
    IN  /\ key \in DOMAIN cache
        /\ (findById(booking.id).status # "CANCELLED")
             # (\E i \in 1..Len(slots) :
                   /\ slots[i].startTime = booking.startTime
                   /\ slots[i].endTime = booking.endTime)

C26_CacheFailuresSwallowed ==
    [][~cacheUp =>
        /\ cache' = cache
        /\ \A p \in Procs :
              /\ StepFrom(p, "checkIdempotency") => calls'[p].cachedBookingId = Null
              /\ StepFrom(p, "getBookingCache") => calls'[p].pc = "getBookingFind"
              /\ StepFrom(p, "roomAvailabilityCache")
                    => calls'[p].pc = "availabilityFindRoom"
              /\ StepFrom(p, "getBookingFind")
                    => IF findById(calls[p].id) = NoBooking
                       THEN calls'[p].error = "BookingNotFoundError"
                       ELSE /\ calls'[p].pc = "getBookingStore"
                            /\ calls'[p].booking = findById(calls[p].id)
              /\ StepFrom(p, "getBookingStore")
                    => /\ calls'[p].pc = "done" /\ calls'[p].error = ""
                       /\ calls'[p].result = calls[p].booking
              /\ StepFrom(p, "roomAvailabilityStore")
                    => /\ calls'[p].pc = "done" /\ calls'[p].error = ""
                       /\ calls'[p].availability = calls[p].availability
                       /\ calls'[p].availability.dateFormat = "Date"
              /\ StepFrom(p, "cacheIdempotency")
                    => calls'[p].pc = "cacheBooking" /\ calls'[p].error = ""
              /\ (StepFrom(p, "cacheBooking") \/ StepFrom(p, "cancelCache"))
                    => /\ calls'[p].pc = "done" /\ calls'[p].error = ""
                       /\ calls'[p].result \in Rows
                       /\ calls'[p].result.status =
                             IF calls[p].op = "cancel" THEN "CANCELLED" ELSE "CONFIRMED"
        /\ \A i \in 1..MaxInFlight :
              HandlerStep(i)
              => bus'.inflight[i].pc =
                    IF bus.inflight[i].pc = "delete" THEN "keys" ELSE "ack"
      ]_vars

\* Redis is down and still holds a booking as CONFIRMED, which cancelBooking
\* could not delete; getBooking has returned the CANCELLED row of the table
C26_Witness ==
    \E p \in Procs :
        /\ ~cacheUp
        /\ GetDone(p) /\ calls[p].error = ""
        /\ calls[p].result = findById(calls[p].id)
        /\ calls[p].result.status = "CANCELLED"
        /\ <<"booking", calls[p].id>> \in DOMAIN cache
        /\ cache[<<"booking", calls[p].id>>].value.status = "CONFIRMED"

\* p is at the end of a getBookings call
ListDone(p) == calls[p].pc = "done" /\ calls[p].op = "list"

\* C27: getBookings(filter) reads and writes no cache entry and returns each
\* row of the table that satisfies every field the filter supplies (room id,
\* user id, status, start >= startTimeFrom, start <= startTimeTo) exactly
\* once, and no other, by start time ascending; with no field supplied it
\* returns every row
C27_ListFromStore ==
    [][\A p \in Procs :
        (calls[p].pc = "idle" /\ calls'[p].op = "list")
        => LET f == calls'[p].filter
               list == calls'[p].list
               wanted ==
                  {b \in Rows :
                      /\ f.roomId = Null \/ b.roomId = f.roomId
                      /\ f.userId = Null \/ b.userId = f.userId
                      /\ f.status = "" \/ b.status = f.status
                      /\ f.startTimeFrom = NoTime \/ b.startTime >= f.startTimeFrom
                      /\ f.startTimeTo = NoTime \/ b.startTime <= f.startTimeTo}
           IN  /\ calls'[p].pc = "done" /\ calls'[p].error = ""
               /\ UNCHANGED <<bookings, cache>>
               /\ {list[i] : i \in 1..Len(list)} = wanted
               /\ Len(list) = Cardinality(wanted)
               /\ \A i, j \in 1..Len(list) :
                     i < j => list[i].startTime <= list[j].startTime
               /\ f = NoFilter => Len(list) = Len(bookings)
      ]_vars

\* with two bookings of one user in the table, the cancelled one still in
\* the cache as CONFIRMED, a listing by that user and status CONFIRMED has
\* returned the other one alone
C27_Witness ==
    \E p \in Procs :
        /\ ListDone(p)
        /\ Len(bookings) = 2
        /\ calls[p].filter.userId = 2 /\ calls[p].filter.status = "CONFIRMED"
        /\ Len(calls[p].list) = 1
        /\ \E b \in Rows :
              /\ b.userId = 2 /\ b.status = "CANCELLED"
              /\ <<"booking", b.id>> \in DOMAIN cache
              /\ cache[<<"booking", b.id>>].value.status = "CONFIRMED"

\* C28: a createBooking, getBooking or cancelBooking call that ended with the
\* error of a failed query on the bookings table is answered with status 503,
\* which is none of 404, 409 and 400
C28_StoreFailureUnavailable ==
    \A p \in Procs :
        (calls[p].pc = "done" /\ calls[p].op \in {"create", "get", "cancel"}
            /\ calls[p].error = "Error")
        => /\ mapDomainError(calls[p].error).statusCode = 503
           /\ mapDomainError(calls[p].error).statusCode \notin {404, 409, 400}

\* C29: the room of every booking is in the rooms table, and a step removes
\* from that table no room that a booking, cancelled or not, refers to: a
\* deleteRoom of such a room leaves the table as it is
C29_RoomsOfBookingsKept ==
    /\ [](\A b \in Rows : b.roomId \in rooms)
    /\ [][/\ \A r \in rooms \ rooms' : \A b \in Rows : b.roomId # r
          /\ \A p \in Procs :
                (calls[p].pc = "idle" /\ calls'[p].op = "deleteRoom"
                    /\ \E b \in Rows : b.roomId = calls'[p].id)
                => rooms' = rooms /\ calls'[p].error # ""
         ]_vars

\* deleteRoom was refused for a room whose only booking is cancelled
C29_Witness ==
    \E p \in Procs :
        /\ calls[p].pc = "done" /\ calls[p].op = "deleteRoom"
        /\ calls[p].error = "DatabaseError"
        /\ calls[p].id \in rooms
        /\ \E b \in Rows : b.roomId = calls[p].id
        /\ \A b \in Rows : b.roomId = calls[p].id => b.status = "CANCELLED"

\* C30: of the cancelBooking calls that found one booking in the table,
\* however their steps interleave, one returns the booking and emits
\* booking.cancelled and every other fails with BookingAlreadyCancelledError
\* and emits nothing
C30_ConcurrentCancelsExclusive ==
    \A p, q \in Procs :
        (/\ p # q
         /\ CancelDone(p) /\ CancelDone(q)
         /\ calls[p].id = calls[q].id
         /\ calls[p].error = ""
         /\ calls[q].error # "BookingNotFoundError")
        => /\ calls[q].error = "BookingAlreadyCancelledError"
           /\ calls[q].emitted = <<>>

\* no call is between its first step and its return
Quiescent == \A p \in Procs : ~Running(p)

\* C31: when no call is in flight, every entry booking:<id> of the cache has
\* the status of the row of the table: a booking whose cancelBooking returned
\* is not served as CONFIRMED
C31_CacheStatusCoherent ==
    Quiescent
    => \A id \in 1..Len(bookings) :
          <<"booking", id>> \in DOMAIN cache
          => cache[<<"booking", id>>].value.status = bookings[id].status

\* every event the calls still on record emitted was published, and the
\* broker and the consumers hold no message
EventsHandled ==
    /\ \A p \in Procs : \A i \in 1..Len(calls[p].published) : calls[p].published[i]
    /\ \A e \in EventTypes : bus.queue[e] = <<>>
    /\ bus.inflight = <<>>

\* C32: when no call is in flight and every booking event has been handled, a
\* cached snapshot availability:<room>:<day> lists as booked exactly the
\* bookings of that room and day that are not cancelled
C32_SnapshotCoherent ==
    (Quiescent /\ EventsHandled)
    => \A roomId \in SeedRooms :
          LET key == <<"availability", roomId, 0>>
              slots == cache[key].value.bookedSlots
          IN  key \in DOMAIN cache
              => {slots[i] : i \in 1..Len(slots)} =
                    {[startTime |-> b.startTime, endTime |-> b.endTime] :
                        b \in {r \in Rows : /\ r.roomId = roomId
                                            /\ r.status # "CANCELLED"
                                            /\ DateKey(r.startTime) = 0}}

\* C33: every free slot that getAvailability returns lies inside the working
\* window [08:00, 18:00) and starts strictly before it ends, whatever the
\* booked intervals of the day
C33_FreeSlotsInsideWindow ==
    \A p \in Procs :
        AvailabilityDone(p)
        => LET free == calls[p].availability.availableSlots
           IN  \A i \in 1..Len(free) :
                  /\ BusinessStart <= free[i].startTime
                  /\ free[i].startTime < free[i].endTime
                  /\ free[i].endTime <= BusinessEnd

\* C34: once the booking created with a token is cancelled, createBooking with
\* that token returns that booking, with status CANCELLED, and inserts nothing,
\* whether the idempotency cache entry or the store's token lookup resolves it
C34_ReplayAfterCancel ==
    [][\A p \in Procs, id \in BookingIds :
        LET key == calls[p].data.idempotencyKey IN
        (/\ StepFrom(p, "resolveIdempotency")
         /\ id <= Len(bookings)
         /\ bookings[id].idempotencyKey = key
         /\ bookings[id].status = "CANCELLED")
        => /\ calls'[p].pc = "done"
           /\ calls'[p].error = ""
           /\ calls'[p].result = bookings[id]
           /\ calls'[p].result.status = "CANCELLED"
           /\ bookings' = bookings
      ]_vars

\* two replays of the token of a cancelled booking returned it, one resolved
\* through the cache entry and one, after the entry expired, through the store
C34_Witness ==
    \E p, q \in Procs :
        /\ Replayed(p) /\ Replayed(q)
        /\ calls[p].cachedBookingId # Null
        /\ calls[q].cachedBookingId = Null
        /\ calls[p].result = calls[q].result
        /\ calls[p].result.status = "CANCELLED"
        /\ calls[p].result.idempotencyKey = calls[p].data.idempotencyKey
        /\ calls[q].result.idempotencyKey = calls[q].data.idempotencyKey

\* the idempotency:<token> entries of the cache
IdempotencyEntries ==
    [key \in {k \in DOMAIN cache : k[1] = "idempotency"} |-> cache[key]]

\* C35: cancelBooking(id) changes only the status and the cancellation time of
\* row id: its room, owner, title, interval and idempotency token, every other
\* row, and the idempotency:<token> cache entries stay as they were
C35_CancelFrame ==
    [][\A p \in Procs :
        (calls[p].op = "cancel" /\ calls'[p] # calls[p] /\ calls[p].pc # "idle")
        => LET id == calls[p].id IN
           /\ Len(bookings') = Len(bookings)
           /\ \A other \in 1..Len(bookings) :
                 IF other = id
                 THEN [bookings'[id] EXCEPT !.status = "", !.cancelledAt = NoTime]
                      = [bookings[id] EXCEPT !.status = "", !.cancelledAt = NoTime]
                 ELSE bookings'[other] = bookings[other]
           /\ IdempotencyEntries' = IdempotencyEntries
      ]_vars

\* a cancelBooking returned the cancelled booking, which carries a token whose
\* cache entry is still there, beside another booking in the table
C35_Witness ==
    \E p \in Procs :
        /\ CancelDone(p) /\ calls[p].error = ""
        /\ calls[p].result.status = "CANCELLED"
        /\ calls[p].result.idempotencyKey # NoKey
        /\ calls[p].result.title \in Titles
        /\ IdempotencyCacheKey(calls[p].result.idempotencyKey) \in DOMAIN cache
        /\ Len(bookings) = 2

\* C36: every handler registered for the type of a delivered message is
\* invoked once for it, in registration order, also after a handler threw,
\* and the ack comes after all of them; a message that does not parse is
\* nacked and requeued and no handler is invoked for it
C36_DispatchToAllHandlers ==
    LET last == dispatch.last
    IN  /\ last.state = "ack"
           => SelectSeq(last.invoked,
                        LAMBDA id : \E i \in 1..Len(last.registered) :
                                        last.registered[i] = id)
              = last.registered
        /\ last.state = "nack"
           => /\ last.invoked = <<>>
              /\ dispatch.queue # <<>>
              /\ Head(dispatch.queue).redelivered

\* how many of the instants `times` lie in the window (t - WindowMs, t]
InWindow(times, t) ==
    Cardinality({i \in 1..Len(times) : times[i] > t - WindowMs /\ times[i] <= t})

\* C37: for every client key and every instant t the limiter has allowed at
\* most maxRequests requests with timestamps in (t - windowMs, t]; a request is
\* allowed exactly when fewer than maxRequests allowed requests lie in the
\* window of its instant, and a denied request leaves the limiter as it was
C37_SlidingWindow ==
    /\ [](\A key \in ClientKeys, t \in 0..MaxClock :
            InWindow(limiter.allowed[key], t) <= MaxRequests)
    /\ [][\A key \in ClientKeys :
            (/\ limiter'.last # limiter.last \/ limiter'.allowed # limiter.allowed
             /\ limiter'.last.key = key)
            => /\ limiter'.last.allowed
                    = (InWindow(limiter.allowed[key], now) < MaxRequests)
               /\ limiter'.last.status = IF limiter'.last.allowed THEN 200 ELSE 429
               /\ ~limiter'.last.allowed
                    => /\ limiter'.windows = limiter.windows
                       /\ limiter'.allowed = limiter.allowed
         ]_vars

\* a client that used up its window and was denied has been allowed again
\* once the window had slid past its oldest request
C37_Witness ==
    \E key \in ClientKeys :
        /\ limiter.last.op = "rateLimit"
        /\ limiter.last.key = key
        /\ limiter.last.allowed
        /\ limiter.denied[key]
        /\ Len(limiter.allowed[key]) = MaxRequests + 1
        /\ InWindow(limiter.allowed[key], now) = MaxRequests

\* the call that this step of the in-memory cache made
MemoryStep(op, key) ==
    /\ memory' # memory
    /\ memory'.last.op = op
    /\ memory'.last.key = key

\* C38: get(k) returns the value of the last set(k, v, ttl) while the ttl has
\* not elapsed and no delete(k), matching deletePattern or clear came after
\* it, and null otherwise; a get of an expired entry removes it; delete(k)
\* returns true exactly when the Map held an entry for k
C38_GetReturnsLiveValue ==
    [][\A k \in MemoryKeys :
        /\ MemoryStep("get", k)
           => LET live == /\ k \in DOMAIN memory.written
                          /\ now - memory.written[k].at < memory.written[k].ttl * 1000
              IN  /\ memory'.last.result =
                        IF live THEN memory.written[k].value ELSE Null
                  /\ ~live => k \notin DOMAIN memory'.cache
        /\ MemoryStep("delete", k)
           => /\ memory'.last.result = (k \in DOMAIN memory.cache)
              /\ k \notin DOMAIN memory'.cache
      ]_vars

\* C39: deletePattern(p) removes exactly the keys that start with p without
\* its first '*', leaves every other key with its entry, and returns the number
\* of keys it removed
C39_DeletePatternFrame ==
    [][\A p \in Patterns :
        MemoryStep("deletePattern", p)
        => LET first == CHOOSE i \in 1..(Len(p) + 1) :
                            /\ i <= Len(p) => p[i] = "*"
                            /\ \A j \in 1..(i - 1) : p[j] # "*"
               prefix == SubSeq(p, 1, first - 1) \o SubSeq(p, first + 1, Len(p))
               removed == {k \in DOMAIN memory.cache :
                              /\ Len(k) >= Len(prefix)
                              /\ \A i \in 1..Len(prefix) : k[i] = prefix[i]}
           IN  /\ DOMAIN memory'.cache = DOMAIN memory.cache \ removed
               /\ \A k \in DOMAIN memory'.cache : memory'.cache[k] = memory.cache[k]
               /\ memory'.last.result = Cardinality(removed)
      ]_vars

\* deletePattern("u**") removed the key "u*" alone and returned 1, and the
\* keys "u1" and "o1" are still in the Map
C39_Witness ==
    /\ memory.last.op = "deletePattern"
    /\ memory.last.key = <<"u", "*", "*">>
    /\ memory.last.result = 1
    /\ DOMAIN memory.cache = {<<"u", "1">>, <<"o", "1">>}

====
